---- MODULE Spec2Model ----
(***************************************************************************)
(* Conversation orchestration of the LinkedIn content generator: the       *)
(* Supabase store (conversations, messages), the Celery worker that runs   *)
(* pipeline steps, the coordinator / format-agent HTTP endpoints, and the  *)
(* three-panel page whose handlers call them.                              *)
(***************************************************************************)
EXTENDS Integers, Sequences, FiniteSets, TLC

\* ---------------------------------------------------------------- bounds
MaxLen == 2
MaxMsgs == 3
MaxLoads == 1

Clients == {"tab1", "tab2"}
ConvIds == {"c1", "c2"}
ConvOrder == <<"c1", "c2">>
Chars == {" ", "a"}

\* ------------------------------------------------------------- constants
WorkerConcurrency_two == 1 + 1
WorkerConcurrency == 1

None == <<>>
Some(x) == <<x>>

Texts == UNION {[1..n -> Chars] : n \in 0..MaxLen}

\* String.prototype.trim
RECURSIVE TrimStart(_)
TrimStart(s) == IF s # <<>> /\ Head(s) = " " THEN TrimStart(Tail(s)) ELSE s

RECURSIVE TrimEnd(_)
TrimEnd(s) == IF s # <<>> /\ s[Len(s)] = " " THEN TrimEnd(SubSeq(s, 1, Len(s) - 1)) ELSE s

TrimStartOnly(s) == TrimStart(s)
Trim(s) == TrimEnd(TrimStart(s))

\* what the drafting agent and the formatting agent return
DraftOutput == <<"d">>
FormatOutput == <<"f">>
RevisedOutput == <<"r">>
RedraftOutput == <<"e">>

\* conversations.state, a jsonb map; None marks a key that is not there
EmptyState ==
  [category |-> None, format |-> None, final_content |-> None,
   user_satisfied |-> None, waiting_for_user |-> None]

\* check (status in ('active','archived'))
StatusCheck_any(s) == TRUE
StatusCheck(s) == s \in {"active", "archived"}

\* public.content_templates as create table makes it: columns, named CHECK
\* constraints, indexes and policies (row level security is enabled and no
\* policy is created), without rows; ran is the script that was run last
OriginalSchema ==
  [columns |-> {"id", "title", "content", "author", "linkedin_url", "category", "format",
                "tags", "performance_metrics", "screenshot_url", "created_at", "updated_at"},
   checks |-> {"content_templates_category_check", "content_templates_format_check"},
   indexes |-> {"idx_content_templates_category_format", "idx_content_templates_tags_gin"},
   policies |-> {},
   rows |-> {},
   ran |-> "create"]

\* check (category in (...)) and check (format in (...))
CheckAccepts(check, row) ==
  IF check = "content_templates_category_check"
  THEN row.category \in {"attract", "nurture", "convert"}
  ELSE row.format \in {"belief_shift", "origin_story", "industry_myths",
                       "framework", "step_by_step", "how_i_how_to",
                       "objection_post", "result_breakdown", "client_success_story"}

VARIABLES
  conversations,         \* public.conversations: id -> row
  messages,              \* public.messages, in insertion order
  now,                   \* now() of the database
  clockTies,             \* whether two inserts can read the same now()
  queue,                 \* tasks waiting in the ai_processing queue
  running,               \* tasks the worker is executing
  uiConversations,       \* per page: the fetched conversation list
  selectedConversation,  \* per page: None or Some(row as it was fetched)
  uiMessages,            \* per page: the messages shown
  isLoadingMessages,
  loads,                 \* per page: message queries in flight
  selectedFormat,
  feedbackText,
  finalContent,
  postStatus,
  createReq,             \* per page: position of handleCreatePost
  xfReq,                 \* per page: position of handleFormatWithTemplate / handleSubmitFeedback
  saveReq,               \* per page: position of handleSavePost
  renameReq,             \* per page: position of savePostTitle
  seen,                  \* the chat-bot adapter's seen-set of update identifiers
  jobs,                  \* the dispatcher's record of each pipeline step it was given
  system_prompts,        \* public.system_prompts
  content_templates      \* public.content_templates: its schema and its rows

storeVars == <<conversations, messages, now, clockTies>>
dispVars == <<queue, running>>
listVars == <<uiConversations>>
panel2Vars == <<selectedConversation, uiMessages, isLoadingMessages, loads>>
inputVars == <<selectedFormat, feedbackText>>
panel3Vars == <<finalContent, postStatus>>
reqVars == <<createReq, xfReq, saveReq, renameReq>>
extVars == <<seen, jobs, system_prompts, content_templates>>
vars == <<storeVars, dispVars, listVars, panel2Vars, inputVars, panel3Vars, reqVars,
          extVars>>

Idle == [pc |-> "idle"]

\* ------------------------------------------------------------ the store
ConvExists(c) == c \in DOMAIN conversations

\* a row of public.conversations as a select returns it
Row(c) == [id |-> c, title |-> conversations[c].title,
           status |-> conversations[c].status, state |-> conversations[c].state]

\* insert into public.messages: created_at defaults to now()
NoMetadata == [feedback |-> None, final_content |-> None, status |-> None, step |-> None]

NewMessage(c, role, agent, content, metadata) ==
  [id |-> Len(messages) + 1, conversation_id |-> c, role |-> role,
   agent_name |-> agent, content |-> content,
   metadata |-> metadata, created_at |-> now]

\* insert adds a row and touches no other: the policies on public.messages
\* are select, insert and delete, and no handler updates a message
InsertMessage_upsertByAgent(ms, m) ==
  LET I == {i \in 1..Len(ms) : /\ ms[i].conversation_id = m.conversation_id
                                /\ ms[i].agent_name = m.agent_name}
  IN IF I = {} THEN Append(ms, m)
     ELSE [i \in 1..Len(ms) |-> IF i \in I THEN m ELSE ms[i]]
InsertMessage(ms, m) == Append(ms, m)

MessagesOf(c) == {i \in 1..Len(messages) : messages[i].conversation_id = c}

HasWriter(c) == \E i \in MessagesOf(c) : messages[i].agent_name = "Writer"

\* .from('messages').select('*').eq('conversation_id', c).order('created_at'):
\* every order of the rows that is non-decreasing in created_at is a result the
\* database may return, since no second sort key is given
ReadsAnyTieOrder(c) ==
  LET idx == MessagesOf(c)
      n == Cardinality(idx)
  IN {[j \in 1..n |-> messages[p[j]]] :
        p \in {q \in [1..n -> idx] :
                 /\ \A a, b \in 1..n : a # b => q[a] # q[b]
                 /\ \A a, b \in 1..n : a < b =>
                       messages[q[a]].created_at <= messages[q[b]].created_at}}

Reads(c) == ReadsAnyTieOrder(c)

\* fetchConversations: select id, title, status, created_at, updated_at, state
FetchedList == [c \in DOMAIN conversations |-> Row(c)]

\* ------------------------------------------------------------------ Init
\* an empty database and freshly loaded pages
InitWith(ties) ==
  /\ conversations = [c \in {} |-> 0]
  /\ messages = << >>
  /\ now = 0
  /\ clockTies \in ties
  /\ queue = << >>
  /\ running = {}
  /\ uiConversations = [k \in Clients |-> << >>]
  /\ selectedConversation = [k \in Clients |-> None]
  /\ uiMessages = [k \in Clients |-> << >>]
  /\ isLoadingMessages = [k \in Clients |-> FALSE]
  /\ loads = [k \in Clients |-> {}]
  /\ selectedFormat = [k \in Clients |-> ""]
  /\ feedbackText = [k \in Clients |-> << >>]
  /\ finalContent = [k \in Clients |-> << >>]
  /\ postStatus = [k \in Clients |-> ""]
  /\ createReq = [k \in Clients |-> Idle]
  /\ xfReq = [k \in Clients |-> Idle]
  /\ saveReq = [k \in Clients |-> Idle]
  /\ renameReq = [k \in Clients |-> Idle]
  /\ seen = {}
  /\ jobs = << >>
  /\ system_prompts = {}
  /\ content_templates = OriginalSchema

Init == InitWith({FALSE})
InitTies == InitWith({TRUE})

\* created_at is timestamptz default now(). With clockTies two inserts may
\* fall into one clock reading, but only inserts of requests that are in flight
\* together: a request issued after an insert is stamped later than that insert,
\* since the clock moves on whenever a request is issued.
NowAfterInsert == IF clockTies THEN {now, now + 1} ELSE {now + 1}
NowAtIssue == IF clockTies THEN now + 1 ELSE now

\* trg_conversations_updated_at, before update on public.conversations for
\* each row: new.updated_at = now(), whatever value the statement gave it
set_updated_at_keep(old) == old
set_updated_at(old) == now

\* time passes with nothing else happening
MaxNow == 4
Tick ==
  /\ now < MaxNow
  /\ now' = now + 1
  /\ UNCHANGED <<extVars, conversations, messages, clockTies, dispVars, listVars,
                 panel2Vars, inputVars, panel3Vars, reqVars>>

\* ------------------------------------------------ panel 2: the messages
Min(S) == CHOOSE x \in S : \A y \in S : x <= y

\* messages.find(msg => msg.agent_name === 'Writer')
FindWriter(ms) ==
  LET I == {i \in 1..Len(ms) : ms[i].agent_name = "Writer"}
  IN IF I = {} THEN None ELSE Some(ms[Min(I)])

\* messages.filter(msg => msg.agent_name === agent), then its last element
LastOf_first(ms, agent) ==
  LET I == {i \in 1..Len(ms) : ms[i].agent_name = agent}
  IN IF I = {} THEN None ELSE Some(ms[Min(I)])
LastOf(ms, agent) ==
  LET I == {i \in 1..Len(ms) : ms[i].agent_name = agent}
  IN IF I = {} THEN None ELSE Some(ms[CHOOSE i \in I : \A j \in I : j <= i])

\* a JavaScript string used as a condition
Truthy(opt) == opt # None /\ opt[1] # << >>

\* content.includes('Final post content saved with status:')
LegacyStatusLine == <<"L">>
IsLegacyStatusLine(content) == content = LegacyStatusLine

\* loadLatestFormattedContent: the value it passes to setFinalContent
LatestFormattedContent_formatFirst(ms, conv) ==
  LET fe == LastOf(ms, "Final Editor")
      fa == LastOf(ms, "Format Agent")
      wr == LastOf(ms, "Writer")
      fromState == conv.state.final_content
  IN IF fe # None /\ ~IsLegacyStatusLine(fe[1].content) THEN fe[1].content
     ELSE IF fa # None THEN fa[1].content
     ELSE IF Truthy(fromState) THEN fromState[1]
     ELSE IF wr # None THEN wr[1].content
     ELSE << >>
LatestFormattedContent(ms, conv) ==
  LET fe == LastOf(ms, "Final Editor")
      fa == LastOf(ms, "Format Agent")
      wr == LastOf(ms, "Writer")
      fromState == conv.state.final_content
  IN IF fe # None /\ ~IsLegacyStatusLine(fe[1].content) THEN fe[1].content
     ELSE IF Truthy(fromState) THEN fromState[1]
     ELSE IF fa # None THEN fa[1].content
     ELSE IF wr # None THEN wr[1].content
     ELSE << >>

\* getFeedbackMessages
getFeedbackMessages_anyFormatMessage(ms) ==
  LET I == {i \in 1..Len(ms) : ms[i].agent_name = "Format Agent"}
      pick[n \in 0..Len(ms)] ==
        IF n = 0 THEN << >>
        ELSE IF n \in I
             THEN Append(pick[n - 1],
                         [content |-> IF ms[n].metadata.feedback = None THEN << >>
                                      ELSE ms[n].metadata.feedback[1],
                          timestamp |-> ms[n].created_at, id |-> ms[n].id])
             ELSE pick[n - 1]
  IN pick[Len(ms)]

getFeedbackMessages(ms) ==
  LET I == {i \in 1..Len(ms) :
              /\ ms[i].agent_name = "Format Agent"
              /\ Truthy(ms[i].metadata.feedback)
              /\ Trim(ms[i].metadata.feedback[1]) # << >>}
      pick[n \in 0..Len(ms)] ==
        IF n = 0 THEN << >>
        ELSE IF n \in I
             THEN Append(pick[n - 1],
                         [content |-> ms[n].metadata.feedback[1],
                          timestamp |-> ms[n].created_at, id |-> ms[n].id])
             ELSE pick[n - 1]
  IN pick[Len(ms)]

\* a page is loaded: the mount effect runs fetchConversations on fresh state
Mount(k) ==
  /\ createReq[k].pc = "idle" /\ xfReq[k].pc = "idle" /\ saveReq[k].pc = "idle"
  /\ renameReq[k].pc = "idle"
  /\ loads[k] = {}
  /\ uiConversations' = [uiConversations EXCEPT ![k] = FetchedList]
  /\ selectedConversation' = [selectedConversation EXCEPT ![k] = None]
  /\ uiMessages' = [uiMessages EXCEPT ![k] = << >>]
  /\ isLoadingMessages' = [isLoadingMessages EXCEPT ![k] = FALSE]
  /\ selectedFormat' = [selectedFormat EXCEPT ![k] = ""]
  /\ feedbackText' = [feedbackText EXCEPT ![k] = << >>]
  /\ finalContent' = [finalContent EXCEPT ![k] = << >>]
  /\ postStatus' = [postStatus EXCEPT ![k] = ""]
  /\ UNCHANGED <<extVars, storeVars, dispVars, loads, reqVars>>

\* handleConversationSelect up to its await: the part both a click on a list
\* entry and a handler's refresh run
BeginSelect(k, conv, owner) ==
  /\ Cardinality(loads[k]) < MaxLoads
  /\ selectedConversation' = [selectedConversation EXCEPT ![k] = Some(conv)]
  /\ isLoadingMessages' = [isLoadingMessages EXCEPT ![k] = TRUE]
  /\ loads' = [loads EXCEPT ![k] = @ \cup {[conv |-> conv, owner |-> owner]}]

\* onClick={() => handleConversationSelect(conversation)}
Select(k, c) ==
  /\ c \in DOMAIN uiConversations[k]
  /\ BeginSelect(k, uiConversations[k][c], "click")
  /\ UNCHANGED <<extVars, storeVars, dispVars, listVars, uiMessages, inputVars,
                 panel3Vars, reqVars>>

\* the same click on a list entry while an earlier load has not returned:
\* nothing in the page holds it back
SelectDuringLoad(k, c) ==
  /\ c \in DOMAIN uiConversations[k]
  /\ loads[k] # {}
  /\ Cardinality(loads[k]) <= MaxLoads
  /\ selectedConversation' = [selectedConversation EXCEPT ![k] = Some(uiConversations[k][c])]
  /\ isLoadingMessages' = [isLoadingMessages EXCEPT ![k] = TRUE]
  /\ loads' = [loads EXCEPT ![k] = @ \cup {[conv |-> uiConversations[k][c], owner |-> "click"]}]
  /\ UNCHANGED <<extVars, storeVars, dispVars, listVars, uiMessages, inputVars,
                 panel3Vars, reqVars>>

\* what the handler that awaited handleConversationSelect does when it returns
AfterRefresh_noFinally(k, l) == UNCHANGED <<xfReq, feedbackText>>
AfterRefresh(k, l) ==
  IF l.owner = "click"
  THEN UNCHANGED <<xfReq, feedbackText>>
  ELSE /\ xfReq' = [xfReq EXCEPT ![k] = Idle]
       /\ feedbackText' = [feedbackText EXCEPT ![k] =
                             IF xfReq[k].kind = "feedback" THEN << >> ELSE @]

\* handleConversationSelect after its await, the query having returned rows
LoadArrive(k, l) ==
  /\ l \in loads[k]
  /\ \E data \in Reads(l.conv.id) :
       /\ uiMessages' = [uiMessages EXCEPT ![k] = data]
       /\ finalContent' = [finalContent EXCEPT ![k] = LatestFormattedContent(data, l.conv)]
  /\ postStatus' = [postStatus EXCEPT ![k] =
                      IF l.conv.status = "" THEN "draft" ELSE l.conv.status]
  /\ isLoadingMessages' = [isLoadingMessages EXCEPT ![k] = FALSE]
  /\ loads' = [loads EXCEPT ![k] = @ \ {l}]
  /\ AfterRefresh(k, l)
  /\ UNCHANGED <<extVars, storeVars, dispVars, listVars, selectedConversation,
                 selectedFormat, createReq, saveReq, renameReq>>

\* handleConversationSelect after its await, the query having failed
LoadFail(k, l) ==
  /\ l \in loads[k]
  /\ uiMessages' = [uiMessages EXCEPT ![k] = << >>]
  /\ isLoadingMessages' = [isLoadingMessages EXCEPT ![k] = FALSE]
  /\ loads' = [loads EXCEPT ![k] = @ \ {l}]
  /\ AfterRefresh(k, l)
  /\ UNCHANGED <<extVars, storeVars, dispVars, listVars, selectedConversation,
                 selectedFormat, panel3Vars, createReq, saveReq, renameReq>>

\* ------------------------------------------------------ panel 1: create
\* handleCreatePost up to its fetch of /coordinator/start (title and content
\* filled in)
CreatePostClick(k) ==
  /\ createReq[k].pc = "idle"
  /\ createReq' = [createReq EXCEPT ![k] = [pc |-> "sent"]]
  /\ UNCHANGED <<extVars, storeVars, dispVars, listVars, panel2Vars, inputVars,
                 panel3Vars, xfReq, saveReq, renameReq>>

DraftTask(c) ==
  [kind |-> "draft", conv |-> c, client |-> "", format |-> "", feedback |-> None]

\* POST /coordinator/start: creates the conversation, seeds state.category and
\* enqueues the drafting task
CoordinatorStart(k) ==
  /\ createReq[k].pc = "sent"
  /\ Cardinality(DOMAIN conversations) < Len(ConvOrder)
  /\ LET c == ConvOrder[Cardinality(DOMAIN conversations) + 1] IN
       /\ conversations' = conversations @@
            (c :> [title |-> "t1", status |-> "active",
                   state |-> [EmptyState EXCEPT !.category = Some("manual_post")],
                   updated_at |-> now])
       /\ queue' = Append(queue, DraftTask(c))
  /\ createReq' = [createReq EXCEPT ![k] = [pc |-> "ok"]]
  /\ UNCHANGED <<extVars, messages, now, clockTies, running, listVars, panel2Vars, inputVars,
                 panel3Vars, xfReq, saveReq, renameReq>>

\* POST /coordinator/start answers with an error status
CoordinatorStartFail(k) ==
  /\ createReq[k].pc = "sent"
  /\ createReq' = [createReq EXCEPT ![k] = [pc |-> "failed"]]
  /\ UNCHANGED <<extVars, storeVars, dispVars, listVars, panel2Vars, inputVars,
                 panel3Vars, xfReq, saveReq, renameReq>>

\* handleCreatePost after its await: refresh the list on success, alert, and
\* clear isCreatingPost in finally
CreatePostSettle(k) ==
  /\ createReq[k].pc \in {"ok", "failed"}
  /\ uiConversations' = [uiConversations EXCEPT ![k] =
                           IF createReq[k].pc = "ok" THEN FetchedList ELSE @]
  /\ createReq' = [createReq EXCEPT ![k] = Idle]
  /\ UNCHANGED <<extVars, storeVars, dispVars, panel2Vars, inputVars, panel3Vars,
                 xfReq, saveReq, renameReq>>

\* --------------------------------------------- panel 2: format, feedback
\* onValueChange={setSelectedFormat}, disabled while a transform is in flight
SetSelectedFormat(k, f) ==
  /\ xfReq[k].pc = "idle"
  /\ selectedFormat[k] # f
  /\ selectedFormat' = [selectedFormat EXCEPT ![k] = f]
  /\ UNCHANGED <<extVars, storeVars, dispVars, listVars, panel2Vars, feedbackText,
                 panel3Vars, reqVars>>

\* handleFormatWithTemplate() up to its fetch of /format-agent/transform; with
\* no Writer message among the shown messages it alerts and returns, which
\* changes nothing
handleFormatWithTemplate(k) ==
  /\ xfReq[k].pc = "idle"
  /\ selectedFormat[k] # ""
  /\ selectedConversation[k] # None
  /\ LET conv == selectedConversation[k][1]
         writerMessage == FindWriter(uiMessages[k])
     IN /\ writerMessage # None
        /\ xfReq' = [xfReq EXCEPT ![k] =
                  [pc |-> "sent", kind |-> "format", conv |-> conv,
                   body |-> [conversation_id |-> conv.id,
                             draft |-> writerMessage[1].content,
                             category |-> conv.state.category,
                             format |-> selectedFormat[k],
                             feedback |-> None]]]
  /\ UNCHANGED <<extVars, storeVars, dispVars, listVars, panel2Vars, inputVars,
                 panel3Vars, createReq, saveReq, renameReq>>

\* the feedback textarea is typed into and handleSubmitFeedback runs up to its
\* fetch of /format-agent/transform
\* format: selectedFormat || 'general'
FeedbackFormat_alwaysGeneral(sel) == "general"
FeedbackFormat(sel) == IF sel = "" THEN "general" ELSE sel

handleSubmitFeedback(k, text) ==
  /\ xfReq[k].pc = "idle"
  /\ feedbackText' = [feedbackText EXCEPT ![k] = text]
  /\ IF \/ Trim(text) = << >>
        \/ selectedConversation[k] = None
        \/ FindWriter(uiMessages[k]) = None
     THEN UNCHANGED xfReq
     ELSE LET conv == selectedConversation[k][1]
              writerMessage == FindWriter(uiMessages[k])
          IN xfReq' = [xfReq EXCEPT ![k] =
                       [pc |-> "sent", kind |-> "feedback", conv |-> conv,
                        body |-> [conversation_id |-> conv.id,
                                  draft |-> writerMessage[1].content,
                                  category |-> conv.state.category,
                                  format |-> FeedbackFormat(selectedFormat[k]),
                                  feedback |-> Some(Trim(text))]]]
  /\ UNCHANGED <<extVars, storeVars, dispVars, listVars, panel2Vars, selectedFormat,
                 panel3Vars, createReq, saveReq, renameReq>>

FormatTask(k, body) ==
  [kind |-> "format", conv |-> body.conversation_id, client |-> k,
   format |-> body.format, feedback |-> body.feedback]

\* transform validates that a drafting-stage message exists to transform
TransformPrecondition_none(c) == TRUE
TransformPrecondition(c) == ConvExists(c) /\ HasWriter(c)

\* POST /format-agent/transform: PreconditionFailed without a drafting-stage
\* message, else the formatting task is queued behind the tasks already there
TransformEndpoint(k) ==
  /\ xfReq[k].pc = "sent"
  /\ IF TransformPrecondition(xfReq[k].body.conversation_id)
     THEN /\ queue' = Append(queue, FormatTask(k, xfReq[k].body))
          /\ xfReq' = [xfReq EXCEPT ![k].pc = "queued"]
     ELSE /\ xfReq' = [xfReq EXCEPT ![k].pc = "PreconditionFailed"]
          /\ UNCHANGED queue
  /\ UNCHANGED <<extVars, storeVars, running, listVars, panel2Vars, inputVars,
                 panel3Vars, createReq, saveReq, renameReq>>

\* the handler's catch and finally after a response that is not ok
TransformSettleError(k) ==
  /\ xfReq[k].pc \in {"PreconditionFailed", "AgentFailed"}
  /\ xfReq' = [xfReq EXCEPT ![k] = Idle]
  /\ UNCHANGED <<extVars, storeVars, dispVars, listVars, panel2Vars, inputVars,
                 panel3Vars, createReq, saveReq, renameReq>>

\* the handler after an ok response: await handleConversationSelect(selectedConversation)
\* with the conversation the handler was started with
TransformRefresh(k) ==
  /\ xfReq[k].pc = "ok"
  /\ BeginSelect(k, xfReq[k].conv, "refresh")
  /\ xfReq' = [xfReq EXCEPT ![k].pc = "refresh"]
  /\ UNCHANGED <<extVars, storeVars, dispVars, listVars, uiMessages, inputVars,
                 panel3Vars, createReq, saveReq, renameReq>>

\* ------------------------------------------------------------ the worker
\* the place in the queue of the task the broker delivers next: the oldest
Delivered_newest(q) == Len(q)
Delivered(q) == 1

\* celery worker --concurrency=1 --queues=ai_processing: takes the oldest task
\* when it has a free slot
WorkerTake ==
  /\ queue # << >>
  /\ Cardinality(running) < WorkerConcurrency
  /\ running' = running \cup {queue[Delivered(queue)]}
  /\ queue' = [i \in 1..(Len(queue) - 1) |->
                 IF i < Delivered(queue) THEN queue[i] ELSE queue[i + 1]]
  /\ now' = NowAtIssue
  /\ UNCHANGED <<extVars, conversations, messages, clockTies, listVars, panel2Vars, inputVars,
                 panel3Vars, reqVars>>

\* the message a finished pipeline step appends
StepMessage(t) ==
  IF t.kind = "draft"
  THEN NewMessage(t.conv, "assistant", "Writer",
                  IF HasWriter(t.conv) THEN RedraftOutput ELSE DraftOutput, NoMetadata)
  ELSE NewMessage(t.conv, "assistant", "Format Agent",
                  IF t.feedback = None THEN FormatOutput ELSE RevisedOutput,
                  [NoMetadata EXCEPT !.feedback = t.feedback])

\* the state merge of a finished pipeline step
StepState(t, state) ==
  IF t.kind = "draft" THEN state ELSE [state EXCEPT !.format = Some(t.format)]

\* whether the result of a finished step is written, given the status the
\* conversation has by then: in-flight tasks of an archived conversation still
\* complete
ResultWritten_activeOnly(status) == status = "active"
ResultWritten(status) == TRUE

\* a pipeline step finishes: message appended, state merged, caller answered
WorkerComplete(t) ==
  /\ t \in running
  /\ Len(messages) < MaxMsgs
  /\ ConvExists(t.conv)
  /\ running' = running \ {t}
  /\ IF ResultWritten(conversations[t.conv].status)
     THEN /\ messages' = InsertMessage(messages, StepMessage(t))
          /\ now' \in NowAfterInsert
          /\ conversations' = [conversations EXCEPT ![t.conv].state = StepState(t, @),
                                                   ![t.conv].updated_at = set_updated_at(@)]
     ELSE UNCHANGED <<messages, now, conversations>>
  /\ xfReq' = IF t.kind = "format" THEN [xfReq EXCEPT ![t.client].pc = "ok"] ELSE xfReq
  /\ UNCHANGED <<extVars, clockTies, queue, listVars, panel2Vars, inputVars, panel3Vars,
                 createReq, saveReq, renameReq>>

\* a pipeline step whose agent call fails: nothing is persisted
WorkerFail(t) ==
  /\ t \in running
  /\ running' = running \ {t}
  /\ xfReq' = IF t.kind = "format" THEN [xfReq EXCEPT ![t.client].pc = "AgentFailed"]
              ELSE xfReq
  /\ UNCHANGED <<extVars, storeVars, queue, listVars, panel2Vars, inputVars, panel3Vars,
                 createReq, saveReq, renameReq>>

\* ------------------------------------------------------- panel 3: save
\* const [postStatus, setPostStatus] = useState(''): the setter takes any string
setPostStatus(k, st) ==
  /\ selectedConversation[k] # None
  /\ postStatus[k] # st
  /\ postStatus' = [postStatus EXCEPT ![k] = st]
  /\ UNCHANGED <<extVars, storeVars, dispVars, listVars, panel2Vars, inputVars,
                 finalContent, reqVars>>

\* onValueChange={setPostStatus}: the select offers active and archived
SetPostStatus(k, st) ==
  /\ st \in {"active", "archived"}
  /\ setPostStatus(k, st)

\* the state object handleSavePost writes: the fetched state spread under the
\* three keys it sets
SavedState(conv, content, status) ==
  [conv.state EXCEPT !.final_content = Some(Trim(content)),
                     !.user_satisfied = Some(status = "completed"),
                     !.waiting_for_user = Some(status # "completed")]

\* status: postStatus
SavedStatus_alwaysActive(status) == "active"
SavedStatus(status) == status

\* if (!selectedConversation || !finalContent.trim()) { alert; return }
SaveReturnsEarly_noTrim(sel, text) == sel = None \/ text = << >>
SaveReturnsEarly(sel, text) == sel = None \/ Trim(text) = << >>

\* the editor is typed into and handleSavePost runs up to its first await
handleSavePost(k, text) ==
  /\ saveReq[k].pc = "idle"
  /\ finalContent' = [finalContent EXCEPT ![k] = text]
  /\ IF SaveReturnsEarly(selectedConversation[k], text)
     THEN UNCHANGED <<saveReq, now>>
     ELSE /\ saveReq' = [saveReq EXCEPT ![k] =
               [pc |-> "update", conv |-> selectedConversation[k][1],
                finalContent |-> text, postStatus |-> postStatus[k],
                updated |-> FALSE, inserted |-> FALSE]]
          /\ now' = NowAtIssue
  /\ UNCHANGED <<extVars, conversations, messages, clockTies, dispVars, listVars, panel2Vars,
                 inputVars, postStatus, createReq, xfReq, renameReq>>

\* where handleSavePost goes after the update's response: it throws on an
\* error and on an empty result
AfterUpdate_noThrow(ok) == "insert"
AfterUpdate(ok) == IF ok THEN "insert" ELSE "idle"

\* .from('conversations').update({status, state, updated_at}).eq('id', id).select()
SaveUpdate(k) ==
  /\ saveReq[k].pc = "update"
  /\ LET r == saveReq[k]
         ok == ConvExists(r.conv.id) /\ StatusCheck(SavedStatus(r.postStatus))
     IN /\ conversations' =
             IF ok
             THEN [conversations EXCEPT
                     ![r.conv.id].status = SavedStatus(r.postStatus),
                     ![r.conv.id].state = SavedState(r.conv, r.finalContent, r.postStatus),
                     ![r.conv.id].updated_at = set_updated_at(@)]
             ELSE conversations
        /\ saveReq' = [saveReq EXCEPT ![k] =
             IF AfterUpdate(ok) = "idle" THEN Idle
             ELSE [r EXCEPT !.pc = "insert", !.updated = ok]]
  /\ UNCHANGED <<extVars, messages, now, clockTies, dispVars, listVars, panel2Vars, inputVars,
                 panel3Vars, createReq, xfReq, renameReq>>

\* the update request fails before it changes the row (network, database)
SaveUpdateError(k) ==
  /\ saveReq[k].pc = "update"
  /\ saveReq' = [saveReq EXCEPT ![k] =
       IF AfterUpdate(FALSE) = "idle" THEN Idle ELSE [@ EXCEPT !.pc = "insert"]]
  /\ UNCHANGED <<extVars, storeVars, dispVars, listVars, panel2Vars, inputVars,
                 panel3Vars, createReq, xfReq, renameReq>>

\* the Final Editor message handleSavePost inserts
FinalEditorMessage(r) ==
  NewMessage(r.conv.id, "user", "Final Editor", Trim(r.finalContent),
             [NoMetadata EXCEPT !.final_content = Some(Trim(r.finalContent)),
                                !.status = Some(r.postStatus)])

\* .from('messages').insert({... agent_name: 'Final Editor' ...}).select()
SaveInsert(k) ==
  /\ saveReq[k].pc = "insert"
  /\ Len(messages) < MaxMsgs
  /\ ConvExists(saveReq[k].conv.id)
  /\ messages' = InsertMessage(messages, FinalEditorMessage(saveReq[k]))
  /\ now' \in NowAfterInsert
  /\ saveReq' = [saveReq EXCEPT ![k].pc = "settle", ![k].inserted = TRUE]
  /\ UNCHANGED <<extVars, conversations, clockTies, dispVars, listVars, panel2Vars, inputVars,
                 panel3Vars, createReq, xfReq, renameReq>>

\* where handleSavePost goes when the insert returns messageError: logged,
\* not thrown, so on to the refresh and the success alert
AfterInsertError_throw == "idle"
AfterInsertError == "settle"

\* the insert returns messageError
SaveInsertError(k) ==
  /\ saveReq[k].pc = "insert"
  /\ saveReq' = [saveReq EXCEPT ![k] =
       IF AfterInsertError = "idle" THEN Idle ELSE [@ EXCEPT !.pc = "settle"]]
  /\ UNCHANGED <<extVars, storeVars, dispVars, listVars, panel2Vars, inputVars,
                 panel3Vars, createReq, xfReq, renameReq>>

\* handleSavePost after the insert: fetchConversations, the success alert, and
\* isSavingPost cleared in finally
SaveSettle(k) ==
  /\ saveReq[k].pc = "settle"
  /\ uiConversations' = [uiConversations EXCEPT ![k] = FetchedList]
  /\ saveReq' = [saveReq EXCEPT ![k] = Idle]
  /\ UNCHANGED <<extVars, storeVars, dispVars, panel2Vars, inputVars, panel3Vars,
                 createReq, xfReq, renameReq>>

\* the Reset button: loadLatestFormattedContent(messages, selectedConversation)
\* on the messages and the conversation the page holds; disabled while saving
Reset(k) ==
  /\ saveReq[k].pc = "idle"
  /\ selectedConversation[k] # None
  /\ finalContent' = [finalContent EXCEPT ![k] =
       LatestFormattedContent(uiMessages[k], selectedConversation[k][1])]
  /\ UNCHANGED <<extVars, storeVars, dispVars, listVars, panel2Vars, inputVars,
                 postStatus, reqVars>>

\* ----------------------------------------------------- panel 1: rename
NewTitle == "t2"

\* startEditingPost, a new title typed, savePostTitle up to its await
RenameClick(k, c) ==
  /\ renameReq[k].pc = "idle"
  /\ c \in DOMAIN uiConversations[k]
  /\ uiConversations[k][c].title # NewTitle
  /\ renameReq' = [renameReq EXCEPT ![k] =
       [pc |-> "update", id |-> c,
        selectedIsEdited |-> (selectedConversation[k] # None
                              /\ selectedConversation[k][1].id = c)]]
  /\ UNCHANGED <<extVars, storeVars, dispVars, listVars, panel2Vars, inputVars,
                 panel3Vars, createReq, xfReq, saveReq>>

\* .from('conversations').update({title}).eq('id', editingPostId) and the local
\* updates that follow it
RenameUpdate(k) ==
  /\ renameReq[k].pc = "update"
  /\ LET c == renameReq[k].id IN
       /\ conversations' = IF ConvExists(c)
                           THEN [conversations EXCEPT ![c].title = NewTitle,
                                                      ![c].updated_at = set_updated_at(@)]
                           ELSE conversations
       /\ uiConversations' = [uiConversations EXCEPT ![k] =
            [d \in DOMAIN @ |-> IF d = c THEN [@[d] EXCEPT !.title = NewTitle] ELSE @[d]]]
       /\ selectedConversation' = [selectedConversation EXCEPT ![k] =
            IF renameReq[k].selectedIsEdited /\ @ # None
            THEN Some([@[1] EXCEPT !.title = NewTitle]) ELSE @]
  /\ renameReq' = [renameReq EXCEPT ![k] = Idle]
  /\ UNCHANGED <<extVars, messages, now, clockTies, dispVars, uiMessages, isLoadingMessages, loads,
                 inputVars, panel3Vars, createReq, xfReq, saveReq>>

\* the title update returns an error: alert and return
RenameError(k) ==
  /\ renameReq[k].pc = "update"
  /\ renameReq' = [renameReq EXCEPT ![k] = Idle]
  /\ UNCHANGED <<extVars, storeVars, dispVars, listVars, panel2Vars, inputVars,
                 panel3Vars, createReq, xfReq, saveReq>>

\* -------------------------------------------- deleting a conversation
\* messages.conversation_id references conversations(id) on delete cascade:
\* the rows of public.messages that go with a deleted conversation
CascadeDelete_none(ms, c) == ms
CascadeDelete(ms, c) == SelectSeq(ms, LAMBDA m : m.conversation_id # c)

\* delete from public.conversations where id = c, which the policy "delete own
\* conversations" lets a client do; no page of the application issues it
DeleteConversation(c) ==
  /\ ConvExists(c)
  /\ conversations' = [x \in DOMAIN conversations \ {c} |-> conversations[x]]
  /\ messages' = CascadeDelete(messages, c)
  /\ UNCHANGED <<extVars, now, clockTies, dispVars, listVars, panel2Vars, inputVars,
                 panel3Vars, reqVars>>

\* ------------------------------------------------- public.system_prompts
\* a row is (agent_name, version, is_current); prompt, id and created_at play
\* no part in what the table accepts
PromptAgents == {"Writer", "Format Agent"}
PromptVersions == {"v1", "v2", "v3"}

\* unique(agent_name, version) is the table's only constraint on these columns
PromptAccepted(rows) ==
  \A r1, r2 \in rows :
    (r1.agent_name = r2.agent_name /\ r1.version = r2.version) => r1 = r2

\* insert into public.system_prompts (agent_name, version, prompt, is_current)
InsertPrompt(a, v, cur) ==
  /\ \A r \in system_prompts : ~(r.agent_name = a /\ r.version = v)
  /\ LET rows == system_prompts \cup {[agent_name |-> a, version |-> v, is_current |-> cur]}
     IN PromptAccepted(rows) /\ system_prompts' = rows
  /\ UNCHANGED <<storeVars, dispVars, listVars, panel2Vars, inputVars, panel3Vars,
                 reqVars, seen, jobs, content_templates>>

\* update public.system_prompts set is_current = cur where agent_name = a and version = v
SetCurrent(a, v, cur) ==
  /\ \E r \in system_prompts : r.agent_name = a /\ r.version = v /\ r.is_current # cur
  /\ LET rows == {IF r.agent_name = a /\ r.version = v
                  THEN [r EXCEPT !.is_current = cur] ELSE r : r \in system_prompts}
     IN PromptAccepted(rows) /\ system_prompts' = rows
  /\ UNCHANGED <<storeVars, dispVars, listVars, panel2Vars, inputVars, panel3Vars,
                 reqVars, seen, jobs, content_templates>>

\* a drafting task submitted for a conversation that has its draft already:
\* the dispatcher runs agent X for conversation Y for whoever submits it, and
\* the pages read Writer messages as a list that may hold several
Redraft(c) ==
  /\ ConvExists(c)
  /\ HasWriter(c)
  /\ \A i \in 1..Len(queue) : queue[i] # DraftTask(c)
  /\ DraftTask(c) \notin running
  /\ queue' = Append(queue, DraftTask(c))
  /\ UNCHANGED <<extVars, storeVars, running, listVars, panel2Vars, inputVars,
                 panel3Vars, reqVars>>

\* ------------------------------------- the worker, attempt by attempt
\* The same worker as WorkerTake / WorkerComplete / WorkerFail, with each
\* step taken apart into delivery, agent call, persistence and acknowledgement,
\* so that a crash or a failed agent call can fall between them. jobs keeps a
\* record for every task delivered.
MaxJobs == 3
MaxCrashes == 1
MaxAttempts == 3

ActivePhases == {"invoking", "returned", "persisted"}
ActiveJobs == {i \in 1..Len(jobs) : jobs[i].phase \in ActivePhases}
JobsOf(c) == {i \in 1..Len(jobs) : jobs[i].task.conv = c}

\* the idempotency key of a step is (conversation id, step sequence number);
\* the message a step persists carries the number in its metadata
StepMessages(c, n) == {i \in MessagesOf(c) : messages[i].metadata.step = Some(n)}
AlreadyPersisted_never(c, n) == FALSE
AlreadyPersisted(c, n) == StepMessages(c, n) # {}

\* what the dispatcher does with a failed agent call: AgentUnavailable is
\* retried until MaxAttempts calls were made, AgentRejected is not retried
AfterFailure_alwaysRetry(kind, attempts) == "queued"
AfterFailure(kind, attempts) ==
  IF kind = "AgentUnavailable" /\ attempts < MaxAttempts THEN "queued" ELSE "failed"

\* the oldest task is delivered to the worker and its first agent call begins
JobTake ==
  /\ queue # << >>
  /\ Len(jobs) < MaxJobs
  /\ Cardinality(ActiveJobs) < WorkerConcurrency
  /\ \A i \in 1..Len(jobs) : jobs[i].phase # "queued"
  /\ LET t == queue[Delivered(queue)] IN
       jobs' = Append(jobs, [task |-> t, seq |-> Cardinality(JobsOf(t.conv)) + 1,
                             phase |-> "invoking", attempts |-> 1,
                             crashes |-> << >>, lastError |-> ""])
  /\ queue' = [i \in 1..(Len(queue) - 1) |->
                 IF i < Delivered(queue) THEN queue[i] ELSE queue[i + 1]]
  /\ now' = NowAtIssue
  /\ UNCHANGED <<conversations, messages, clockTies, running, listVars, panel2Vars,
                 inputVars, panel3Vars, reqVars, seen, system_prompts, content_templates>>

\* a task waiting for its next attempt is run again
JobRetry(i) ==
  /\ jobs[i].phase = "queued"
  /\ Cardinality(ActiveJobs) < WorkerConcurrency
  /\ jobs' = [jobs EXCEPT ![i].phase = "invoking", ![i].attempts = @ + 1]
  /\ now' = NowAtIssue
  /\ UNCHANGED <<conversations, messages, clockTies, dispVars, listVars, panel2Vars,
                 inputVars, panel3Vars, reqVars, seen, system_prompts, content_templates>>

\* the agent call returns its output
AgentReturn(i) ==
  /\ jobs[i].phase = "invoking"
  /\ jobs' = [jobs EXCEPT ![i].phase = "returned"]
  /\ UNCHANGED <<storeVars, dispVars, listVars, panel2Vars, inputVars, panel3Vars,
                 reqVars, seen, system_prompts, content_templates>>

\* the agent call fails
AgentFails(i, kind) ==
  /\ jobs[i].phase = "invoking"
  /\ kind \in {"AgentUnavailable", "AgentRejected"}
  /\ LET next == AfterFailure(kind, jobs[i].attempts) IN
       /\ jobs' = [jobs EXCEPT ![i].phase = next, ![i].lastError = kind]
       /\ xfReq' = IF next = "failed" /\ jobs[i].task.kind = "format"
                   THEN [xfReq EXCEPT ![jobs[i].task.client].pc = "AgentFailed"]
                   ELSE xfReq
  /\ UNCHANGED <<storeVars, dispVars, listVars, panel2Vars, inputVars, panel3Vars,
                 createReq, saveReq, renameReq, seen, system_prompts, content_templates>>

\* the result is persisted: the message is appended and the state merged,
\* unless a message with the step's idempotency key is already there
JobPersist(i) ==
  /\ jobs[i].phase = "returned"
  /\ LET t == jobs[i].task IN
       IF AlreadyPersisted(t.conv, jobs[i].seq)
       THEN UNCHANGED <<conversations, messages, now>>
       ELSE /\ Len(messages) < MaxMsgs
            /\ ConvExists(t.conv)
            /\ messages' = InsertMessage(messages,
                 [StepMessage(t) EXCEPT !.metadata.step = Some(jobs[i].seq)])
            /\ now' \in NowAfterInsert
            /\ conversations' = [conversations EXCEPT
                                   ![t.conv].state = StepState(t, @),
                                   ![t.conv].updated_at = set_updated_at(@)]
  /\ jobs' = [jobs EXCEPT ![i].phase = "persisted"]
  /\ UNCHANGED <<clockTies, dispVars, listVars, panel2Vars, inputVars, panel3Vars,
                 reqVars, seen, system_prompts, content_templates>>

\* the task is acknowledged and the caller answered
JobAck(i) ==
  /\ jobs[i].phase = "persisted"
  /\ jobs' = [jobs EXCEPT ![i].phase = "done"]
  /\ xfReq' = IF jobs[i].task.kind = "format"
              THEN [xfReq EXCEPT ![jobs[i].task.client].pc = "ok"] ELSE xfReq
  /\ UNCHANGED <<storeVars, dispVars, listVars, panel2Vars, inputVars, panel3Vars,
                 createReq, saveReq, renameReq, seen, system_prompts, content_templates>>

\* the worker crashes with a task it has not acknowledged: the task is
\* delivered again
WorkerCrash(i) ==
  /\ jobs[i].phase \in ActivePhases
  /\ Len(jobs[i].crashes) < MaxCrashes
  /\ jobs' = [jobs EXCEPT ![i].phase = "queued",
                          ![i].crashes = Append(@, jobs[i].phase)]
  /\ UNCHANGED <<storeVars, dispVars, listVars, panel2Vars, inputVars, panel3Vars,
                 reqVars, seen, system_prompts, content_templates>>

\* ------------------------------------------- content_templates migration
\* the rows templates are made of, by the two columns the constraints look at
TemplateRows == [category : {"attract", "nurture", "custom"}, format : {"framework", "custom"}]

\* insert into public.content_templates
InsertTemplate(r) ==
  /\ r \notin content_templates.rows
  /\ \A ch \in content_templates.checks : CheckAccepts(ch, r)
  /\ content_templates' = [content_templates EXCEPT !.rows = @ \cup {r}]
  /\ UNCHANGED <<storeVars, dispVars, listVars, panel2Vars, inputVars, panel3Vars,
                 reqVars, seen, jobs, system_prompts>>

\* delete from public.content_templates
DeleteTemplate(r) ==
  /\ r \in content_templates.rows
  /\ content_templates' = [content_templates EXCEPT !.rows = @ \ {r}]
  /\ UNCHANGED <<storeVars, dispVars, listVars, panel2Vars, inputVars, panel3Vars,
                 reqVars, seen, jobs, system_prompts>>

\* what the migration adds; its first version also adds user_id and policies
MigrationColumns == {"parent_template_id", "ai_categorized", "ai_tags", "custom_category",
                     "custom_format", "categorization_confidence"}
MigrationIndexes == {"idx_content_templates_parent_id", "idx_content_templates_ai_categorized",
                     "idx_content_templates_ai_tags_gin",
                     "idx_content_templates_custom_category",
                     "idx_content_templates_custom_format"}
TemplatePolicies == {"select content templates", "insert content templates",
                     "update content templates", "delete content templates"}

\* Migration: Enhance Template Categorization System, in either version. Every
\* statement is guarded by IF [NOT] EXISTS; the UPDATE writes only columns the
\* migration adds
Migrate(withUser) ==
  /\ content_templates.ran # "migration"
  /\ content_templates' =
       [content_templates EXCEPT
          !.columns = @ \cup MigrationColumns \cup (IF withUser THEN {"user_id"} ELSE {}),
          !.checks = @ \ {"content_templates_category_check", "content_templates_format_check"},
          !.indexes = @ \cup MigrationIndexes,
          !.policies = IF withUser THEN TemplatePolicies ELSE @,
          !.ran = "migration"]
  /\ UNCHANGED <<storeVars, dispVars, listVars, panel2Vars, inputVars, panel3Vars,
                 reqVars, seen, jobs, system_prompts>>

\* ALTER TABLE ... ADD CONSTRAINT name CHECK (...): the constraint is validated
\* against the rows of the table and the statement fails when a row violates it
AddConstraint(t, check) ==
  IF \A r \in t.rows : CheckAccepts(check, r)
  THEN [t EXCEPT !.checks = @ \cup {check}]
  ELSE t

\* how the rollback script is run, which the repository does not fix: psql
\* goes on after a failed statement, psql with ON_ERROR_STOP stops at it, and
\* a runner that wraps the script in a transaction undoes all of it
RunModes == {"continue", "stop", "transaction"}

\* Rollback Migration: drop the indexes, the columns and the policies, then
\* re-add the two CHECK constraints
Rollback(mode) ==
  /\ content_templates.ran = "migration"
  /\ LET dropped == [content_templates EXCEPT
                       !.indexes = @ \ MigrationIndexes,
                       !.columns = @ \ (MigrationColumns \cup {"user_id"}),
                       !.policies = @ \ TemplatePolicies,
                       !.ran = "rollback"]
         withCategory == AddConstraint(dropped, "content_templates_category_check")
         withFormat == AddConstraint(withCategory, "content_templates_format_check")
     IN content_templates' =
          IF withFormat.checks = OriginalSchema.checks THEN withFormat
          ELSE IF mode = "transaction" THEN [content_templates EXCEPT !.ran = "rollback"]
          ELSE IF mode = "stop" /\ withCategory = dropped THEN dropped
          ELSE withFormat
  /\ UNCHANGED <<storeVars, dispVars, listVars, panel2Vars, inputVars, panel3Vars,
                 reqVars, seen, jobs, system_prompts>>

\* ------------------------------------------------- chat-bot channel adapter
UpdateIds == {"u1", "u2"}

\* the adapter's test for a redelivered update
IsDuplicate_never(u) == FALSE
IsDuplicate(u) == u \in seen

\* POST /telegram/webhook with an update that maps to start: a duplicate is
\* dropped; otherwise the identifier is recorded and start creates the
\* conversation, titled after the update, and enqueues the drafting task
TelegramWebhook(u) ==
  /\ IF IsDuplicate(u)
     THEN UNCHANGED <<conversations, queue, seen>>
     ELSE /\ Cardinality(DOMAIN conversations) < Len(ConvOrder)
          /\ LET c == ConvOrder[Cardinality(DOMAIN conversations) + 1] IN
               /\ conversations' = conversations @@
                    (c :> [title |-> u, status |-> "active",
                           state |-> [EmptyState EXCEPT !.category = Some("manual_post")],
                           updated_at |-> now])
               /\ queue' = Append(queue, DraftTask(c))
          /\ seen' = seen \cup {u}
  /\ UNCHANGED <<messages, now, clockTies, running, listVars, panel2Vars, inputVars,
                 panel3Vars, reqVars, jobs, system_prompts, content_templates>>

\* the seen-set is short-lived: an identifier is dropped when its time is up
SeenExpire(u) ==
  /\ u \in seen
  /\ seen' = seen \ {u}
  /\ UNCHANGED <<storeVars, dispVars, listVars, panel2Vars, inputVars, panel3Vars,
                 reqVars, jobs, system_prompts, content_templates>>

\* ------------------------------------------------------- specifications
OneTab == {"tab1"}
\* the empty text and the texts of full length: blank ones, ones with a space
\* before, after or inside
FullTexts == {<< >>} \cup {t \in Texts : Len(t) = MaxLen}
SampleText == {<<"a">>}

\* no handler of page k is in flight
Quiet(k) ==
  /\ createReq[k].pc = "idle" /\ xfReq[k].pc = "idle" /\ saveReq[k].pc = "idle"
  /\ renameReq[k].pc = "idle" /\ loads[k] = {}

\* Two pages that create, select and format; each user waits for the page to
\* settle before the next click, the pages run against each other freely.
NextDispatch ==
  \/ \E k \in Clients : Mount(k)
  \/ \E k \in Clients, c \in ConvIds : Quiet(k) /\ Select(k, c)
  \/ \E k \in Clients : \E l \in loads[k] : LoadArrive(k, l)
  \/ \E k \in Clients : Quiet(k) /\ CreatePostClick(k)
  \/ \E k \in Clients : CoordinatorStart(k)
  \/ \E k \in Clients : CreatePostSettle(k)
  \/ \E k \in Clients : Quiet(k) /\ SetSelectedFormat(k, "framework")
  \/ \E k \in Clients : Quiet(k) /\ handleFormatWithTemplate(k)
  \/ \E k \in Clients : TransformEndpoint(k)
  \/ \E k \in Clients : TransformSettleError(k)
  \/ \E k \in Clients : TransformRefresh(k)
  \/ WorkerTake
  \/ \E t \in running : WorkerComplete(t)
  \/ \E t \in running : WorkerFail(t)

SpecDispatch == Init /\ [][NextDispatch]_vars

\* One page, every handler, one sample text; the user may click while earlier
\* requests of the page are still in flight.
NextRace ==
  \/ \E k \in OneTab, c \in ConvIds : Select(k, c)
  \/ \E k \in OneTab : \E l \in loads[k] : LoadArrive(k, l)
  \/ \E k \in OneTab : \E l \in loads[k] : LoadFail(k, l)
  \/ \E k \in OneTab : CreatePostClick(k)
  \/ \E k \in OneTab : CoordinatorStart(k)
  \/ \E k \in OneTab : CoordinatorStartFail(k)
  \/ \E k \in OneTab : CreatePostSettle(k)
  \/ \E k \in OneTab : SetSelectedFormat(k, "framework")
  \/ \E k \in OneTab : handleFormatWithTemplate(k)
  \/ \E k \in OneTab, text \in SampleText : handleSubmitFeedback(k, text)
  \/ \E k \in OneTab : TransformEndpoint(k)
  \/ \E k \in OneTab : TransformSettleError(k)
  \/ \E k \in OneTab : TransformRefresh(k)
  \/ WorkerTake
  \/ \E t \in running : WorkerComplete(t)
  \/ \E t \in running : WorkerFail(t)

SpecRace == Init /\ [][NextRace]_vars

\* One page and one conversation, every handler, one sample text; the user
\* waits for the page to settle before the next click.
Next ==
  \/ \E k \in OneTab : Mount(k)
  \/ \E k \in OneTab, c \in ConvIds : Quiet(k) /\ Select(k, c)
  \/ \E k \in OneTab : \E l \in loads[k] : LoadArrive(k, l)
  \/ \E k \in OneTab : \E l \in loads[k] : LoadFail(k, l)
  \/ \E k \in OneTab : Quiet(k) /\ conversations = << >> /\ CreatePostClick(k)
  \/ \E k \in OneTab : CoordinatorStart(k)
  \/ \E k \in OneTab : CoordinatorStartFail(k)
  \/ \E k \in OneTab : CreatePostSettle(k)
  \/ \E k \in OneTab : Quiet(k) /\ SetSelectedFormat(k, "framework")
  \/ \E k \in OneTab : Quiet(k) /\ handleFormatWithTemplate(k)
  \/ \E k \in OneTab, text \in SampleText : Quiet(k) /\ handleSubmitFeedback(k, text)
  \/ \E k \in OneTab : TransformEndpoint(k)
  \/ \E k \in OneTab : TransformSettleError(k)
  \/ \E k \in OneTab : TransformRefresh(k)
  \/ WorkerTake
  \/ \E t \in running : WorkerComplete(t)
  \/ \E t \in running : WorkerFail(t)
  \/ \E k \in OneTab, st \in {"active", "archived"} : Quiet(k) /\ SetPostStatus(k, st)
  \/ \E k \in OneTab, text \in SampleText : Quiet(k) /\ handleSavePost(k, text)
  \/ \E k \in OneTab : SaveUpdate(k)
  \/ \E k \in OneTab : SaveUpdateError(k)
  \/ \E k \in OneTab : SaveInsert(k)
  \/ \E k \in OneTab : SaveInsertError(k)
  \/ \E k \in OneTab : SaveSettle(k)
  \/ \E k \in OneTab, c \in ConvIds : Quiet(k) /\ RenameClick(k, c)
  \/ \E k \in OneTab : RenameUpdate(k)
  \/ \E k \in OneTab : RenameError(k)

Spec == Init /\ [][Next]_vars

\* One page and one conversation, status left as loaded; the edited content
\* ranges over FullTexts.
NextText ==
  \/ \E k \in OneTab, c \in ConvIds : Quiet(k) /\ Select(k, c)
  \/ \E k \in OneTab : \E l \in loads[k] : LoadArrive(k, l)
  \/ \E k \in OneTab : Quiet(k) /\ conversations = << >> /\ CreatePostClick(k)
  \/ \E k \in OneTab : CoordinatorStart(k)
  \/ \E k \in OneTab : CreatePostSettle(k)
  \/ WorkerTake
  \/ \E t \in running : WorkerComplete(t)
  \/ \E k \in OneTab, text \in FullTexts : Quiet(k) /\ handleSavePost(k, text)
  \/ \E k \in OneTab : SaveUpdate(k)
  \/ \E k \in OneTab : SaveInsert(k)
  \/ \E k \in OneTab : SaveSettle(k)

SpecText == Init /\ [][NextText]_vars

\* One page and one conversation; formats with and without feedback, the
\* feedback ranging over FullTexts.
NextFeedback ==
  \/ \E k \in OneTab, c \in ConvIds : Quiet(k) /\ Select(k, c)
  \/ \E k \in OneTab : \E l \in loads[k] : LoadArrive(k, l)
  \/ \E k \in OneTab : Quiet(k) /\ conversations = << >> /\ CreatePostClick(k)
  \/ \E k \in OneTab : CoordinatorStart(k)
  \/ \E k \in OneTab : CreatePostSettle(k)
  \/ \E k \in OneTab : Quiet(k) /\ SetSelectedFormat(k, "framework")
  \/ \E k \in OneTab : Quiet(k) /\ handleFormatWithTemplate(k)
  \/ \E k \in OneTab, text \in FullTexts : Quiet(k) /\ handleSubmitFeedback(k, text)
  \/ \E k \in OneTab : TransformEndpoint(k)
  \/ \E k \in OneTab : TransformSettleError(k)
  \/ \E k \in OneTab : TransformRefresh(k)
  \/ WorkerTake
  \/ \E t \in running : WorkerComplete(t)
  \/ \E t \in running : WorkerFail(t)

SpecFeedback == Init /\ [][NextFeedback]_vars

\* Two pages on one conversation and a clock that may give the inserts of two
\* requests in flight together the same created_at: tab1 creates the post, both
\* pages select, load and save.
NextTies ==
  \/ \E k \in Clients, c \in ConvIds : Quiet(k) /\ Select(k, c)
  \/ \E k \in Clients : \E l \in loads[k] : LoadArrive(k, l)
  \/ \E k \in OneTab : Quiet(k) /\ conversations = << >> /\ CreatePostClick(k)
  \/ \E k \in OneTab : CoordinatorStart(k)
  \/ \E k \in OneTab : CreatePostSettle(k)
  \/ \E k \in Clients : Mount(k)
  \/ WorkerTake
  \/ \E t \in running : WorkerComplete(t)
  \/ \E k \in Clients, text \in SampleText : Quiet(k) /\ handleSavePost(k, text)
  \/ \E k \in Clients : SaveUpdate(k)
  \/ \E k \in Clients : SaveInsert(k)
  \/ \E k \in Clients : SaveSettle(k)

SpecTies == InitTies /\ [][NextTies]_vars

\* One page and one conversation: create, format, and saves whose status is
\* any of active, archived and completed, the last a value the handler tests
\* for and the Status select does not offer.
NextStatus ==
  \/ \E k \in OneTab, c \in ConvIds : Quiet(k) /\ Select(k, c)
  \/ \E k \in OneTab : \E l \in loads[k] : LoadArrive(k, l)
  \/ \E k \in OneTab : Quiet(k) /\ conversations = << >> /\ CreatePostClick(k)
  \/ \E k \in OneTab : CoordinatorStart(k)
  \/ \E k \in OneTab : CreatePostSettle(k)
  \/ \E k \in OneTab : Quiet(k) /\ SetSelectedFormat(k, "framework")
  \/ \E k \in OneTab : Quiet(k) /\ handleFormatWithTemplate(k)
  \/ \E k \in OneTab : TransformEndpoint(k)
  \/ \E k \in OneTab : TransformRefresh(k)
  \/ WorkerTake
  \/ \E t \in running : WorkerComplete(t)
  \/ \E k \in OneTab, st \in {"active", "archived", "completed", "draft"} :
       Quiet(k) /\ setPostStatus(k, st)
  \/ \E k \in OneTab, text \in SampleText : Quiet(k) /\ handleSavePost(k, text)
  \/ \E k \in OneTab : SaveUpdate(k)
  \/ \E k \in OneTab : SaveInsert(k)
  \/ \E k \in OneTab : SaveSettle(k)

SpecStatus == Init /\ [][NextStatus]_vars

\* The chat-bot channel: updates are delivered any number of times, seen
\* identifiers expire, the worker drafts, and a page looks on.
NextBot ==
  \/ \E u \in UpdateIds : TelegramWebhook(u)
  \/ \E u \in UpdateIds : SeenExpire(u)
  \/ WorkerTake
  \/ \E t \in running : WorkerComplete(t)
  \/ \E k \in OneTab : Mount(k)
  \/ \E k \in OneTab, c \in ConvIds : Quiet(k) /\ Select(k, c)
  \/ \E k \in OneTab : \E l \in loads[k] : LoadArrive(k, l)

SpecBot == Init /\ [][NextBot]_vars

\* One page creates and formats; the worker runs attempt by attempt and may
\* crash with an unacknowledged task. Agent calls succeed.
NextCrash ==
  \/ \E k \in OneTab, c \in ConvIds : Quiet(k) /\ Select(k, c)
  \/ \E k \in OneTab : \E l \in loads[k] : LoadArrive(k, l)
  \/ \E k \in OneTab : Quiet(k) /\ conversations = << >> /\ CreatePostClick(k)
  \/ \E k \in OneTab : CoordinatorStart(k)
  \/ \E k \in OneTab : CreatePostSettle(k)
  \/ \E k \in OneTab : Quiet(k) /\ SetSelectedFormat(k, "framework")
  \/ \E k \in OneTab : Quiet(k) /\ handleFormatWithTemplate(k)
  \/ \E k \in OneTab : TransformEndpoint(k)
  \/ \E k \in OneTab : TransformRefresh(k)
  \/ JobTake
  \/ \E i \in 1..Len(jobs) : JobRetry(i)
  \/ \E i \in 1..Len(jobs) : AgentReturn(i)
  \/ \E i \in 1..Len(jobs) : JobPersist(i)
  \/ \E i \in 1..Len(jobs) : JobAck(i)
  \/ \E i \in 1..Len(jobs) : WorkerCrash(i)

SpecCrash == Init /\ [][NextCrash]_vars

\* One page creates and formats; the worker runs attempt by attempt and agent
\* calls may fail either way. The worker does not crash.
NextRetry ==
  \/ \E k \in OneTab, c \in ConvIds : Quiet(k) /\ Select(k, c)
  \/ \E k \in OneTab : \E l \in loads[k] : LoadArrive(k, l)
  \/ \E k \in OneTab : Quiet(k) /\ conversations = << >> /\ CreatePostClick(k)
  \/ \E k \in OneTab : CoordinatorStart(k)
  \/ \E k \in OneTab : CreatePostSettle(k)
  \/ \E k \in OneTab : Quiet(k) /\ SetSelectedFormat(k, "framework")
  \/ \E k \in OneTab : Quiet(k) /\ handleFormatWithTemplate(k)
  \/ \E k \in OneTab : TransformEndpoint(k)
  \/ \E k \in OneTab : TransformSettleError(k)
  \/ \E k \in OneTab : TransformRefresh(k)
  \/ JobTake
  \/ \E i \in 1..Len(jobs) : JobRetry(i)
  \/ \E i \in 1..Len(jobs) : AgentReturn(i)
  \/ \E i \in 1..Len(jobs), kind \in {"AgentUnavailable", "AgentRejected"} :
       AgentFails(i, kind)
  \/ \E i \in 1..Len(jobs) : JobPersist(i)
  \/ \E i \in 1..Len(jobs) : JobAck(i)

SpecRetry == Init /\ [][NextRetry]_vars

\* Two pages on one conversation with a clock that may tie: tab1 creates,
\* selects, formats and reformats with feedback, and loads after each; tab2
\* mounts, selects once and saves.
NextLatest ==
  \/ \E k \in Clients \ OneTab : uiConversations[k] = << >> /\ Mount(k)
  \/ \E k \in Clients, c \in ConvIds :
       Quiet(k) /\ selectedConversation[k] = None /\ Select(k, c)
  \/ \E k \in Clients : \E l \in loads[k] : LoadArrive(k, l)
  \/ \E k \in OneTab : Quiet(k) /\ conversations = << >> /\ CreatePostClick(k)
  \/ \E k \in OneTab : CoordinatorStart(k)
  \/ \E k \in OneTab : CreatePostSettle(k)
  \/ \E k \in OneTab : Quiet(k) /\ SetSelectedFormat(k, "framework")
  \/ \E k \in OneTab : Quiet(k) /\ handleFormatWithTemplate(k)
  \/ \E k \in OneTab, text \in SampleText : Quiet(k) /\ handleSubmitFeedback(k, text)
  \/ \E k \in OneTab : TransformEndpoint(k)
  \/ \E k \in OneTab : TransformRefresh(k)
  \/ WorkerTake
  \/ \E t \in running : WorkerComplete(t)
  \/ \E k \in Clients \ OneTab, text \in SampleText : Quiet(k) /\ handleSavePost(k, text)
  \/ \E k \in Clients \ OneTab : SaveUpdate(k)
  \/ \E k \in Clients \ OneTab : SaveInsert(k)
  \/ \E k \in Clients \ OneTab : SaveSettle(k)

SpecLatest == InitTies /\ [][NextLatest]_vars

\* One conversation, started once from the chat-bot channel, one page that
\* mounts, selects, loads, formats and saves it, and a client that deletes it
\* at any moment, also while a step or a save is in flight.
NextDelete ==
  \/ TelegramWebhook("u1")
  \/ \E k \in OneTab : Mount(k)
  \/ \E k \in OneTab, c \in ConvIds : Quiet(k) /\ Select(k, c)
  \/ \E k \in OneTab : \E l \in loads[k] : LoadArrive(k, l)
  \/ \E k \in OneTab : Quiet(k) /\ SetSelectedFormat(k, "framework")
  \/ \E k \in OneTab : Quiet(k) /\ handleFormatWithTemplate(k)
  \/ \E k \in OneTab : TransformEndpoint(k)
  \/ \E k \in OneTab : TransformSettleError(k)
  \/ \E k \in OneTab : TransformRefresh(k)
  \/ WorkerTake
  \/ \E t \in running : WorkerComplete(t)
  \/ \E t \in running : WorkerFail(t)
  \/ \E k \in OneTab, text \in SampleText : Quiet(k) /\ handleSavePost(k, text)
  \/ \E k \in OneTab : SaveUpdate(k)
  \/ \E k \in OneTab : SaveInsert(k)
  \/ \E k \in OneTab : SaveInsertError(k)
  \/ \E k \in OneTab : SaveSettle(k)
  \/ \E c \in ConvIds : DeleteConversation(c)

SpecDelete == Init /\ [][NextDelete]_vars

\* Every insert and every change of is_current the table accepts.
NextPrompts ==
  \/ \E a \in PromptAgents, v \in PromptVersions, cur \in BOOLEAN : InsertPrompt(a, v, cur)
  \/ \E a \in PromptAgents, v \in PromptVersions, cur \in BOOLEAN : SetCurrent(a, v, cur)

SpecPrompts == Init /\ [][NextPrompts]_vars

\* One page and one conversation: create, format, save and rename, with time
\* passing between the steps.
NextTouch ==
  \/ \E k \in OneTab, c \in ConvIds : Quiet(k) /\ Select(k, c)
  \/ \E k \in OneTab : \E l \in loads[k] : LoadArrive(k, l)
  \/ \E k \in OneTab : Quiet(k) /\ conversations = << >> /\ CreatePostClick(k)
  \/ \E k \in OneTab : CoordinatorStart(k)
  \/ \E k \in OneTab : CreatePostSettle(k)
  \/ \E k \in OneTab : Quiet(k) /\ SetSelectedFormat(k, "framework")
  \/ \E k \in OneTab : Quiet(k) /\ handleFormatWithTemplate(k)
  \/ \E k \in OneTab : TransformEndpoint(k)
  \/ \E k \in OneTab : TransformRefresh(k)
  \/ WorkerTake
  \/ \E t \in running : WorkerComplete(t)
  \/ \E k \in OneTab, text \in SampleText : Quiet(k) /\ handleSavePost(k, text)
  \/ \E k \in OneTab : SaveUpdate(k)
  \/ \E k \in OneTab : SaveInsert(k)
  \/ \E k \in OneTab : SaveSettle(k)
  \/ \E k \in OneTab, c \in ConvIds : Quiet(k) /\ RenameClick(k, c)
  \/ \E k \in OneTab : RenameUpdate(k)
  \/ Tick

SpecTouch == Init /\ [][NextTouch]_vars

\* One page and one conversation; the status select and the Save button are
\* used whenever the page allows it, also while a format step is in flight.
NextArchive ==
  \/ \E k \in OneTab, c \in ConvIds : Quiet(k) /\ Select(k, c)
  \/ \E k \in OneTab : \E l \in loads[k] : LoadArrive(k, l)
  \/ \E k \in OneTab : Quiet(k) /\ conversations = << >> /\ CreatePostClick(k)
  \/ \E k \in OneTab : CoordinatorStart(k)
  \/ \E k \in OneTab : CreatePostSettle(k)
  \/ \E k \in OneTab : Quiet(k) /\ SetSelectedFormat(k, "framework")
  \/ \E k \in OneTab : Quiet(k) /\ handleFormatWithTemplate(k)
  \/ \E k \in OneTab : TransformEndpoint(k)
  \/ \E k \in OneTab : TransformRefresh(k)
  \/ WorkerTake
  \/ \E t \in running : WorkerComplete(t)
  \/ \E k \in OneTab, st \in {"active", "archived"} : SetPostStatus(k, st)
  \/ \E k \in OneTab, text \in SampleText : handleSavePost(k, text)
  \/ \E k \in OneTab : SaveUpdate(k)
  \/ \E k \in OneTab : SaveInsert(k)
  \/ \E k \in OneTab : SaveSettle(k)

SpecArchive == Init /\ [][NextArchive]_vars

\* One page and one conversation that is drafted a second time; the page
\* selects, loads, formats and sends feedback.
NextRedraft ==
  \/ \E k \in OneTab, c \in ConvIds : Quiet(k) /\ Select(k, c)
  \/ \E k \in OneTab : \E l \in loads[k] : LoadArrive(k, l)
  \/ \E k \in OneTab : Quiet(k) /\ conversations = << >> /\ CreatePostClick(k)
  \/ \E k \in OneTab : CoordinatorStart(k)
  \/ \E k \in OneTab : CreatePostSettle(k)
  \/ \E c \in ConvIds : Redraft(c)
  \/ \E k \in OneTab : Quiet(k) /\ SetSelectedFormat(k, "framework")
  \/ \E k \in OneTab : Quiet(k) /\ handleFormatWithTemplate(k)
  \/ \E k \in OneTab, text \in SampleText : Quiet(k) /\ handleSubmitFeedback(k, text)
  \/ \E k \in OneTab : TransformEndpoint(k)
  \/ \E k \in OneTab : TransformRefresh(k)
  \/ WorkerTake
  \/ \E t \in running : WorkerComplete(t)

SpecRedraft == Init /\ [][NextRedraft]_vars

\* The template table alone: templates are inserted and deleted as the
\* constraints in force allow, the migration is applied in either version and
\* rolled back.
NextMigration ==
  \/ \E r \in TemplateRows : InsertTemplate(r)
  \/ \E r \in TemplateRows : DeleteTemplate(r)
  \/ \E withUser \in BOOLEAN : Migrate(withUser)
  \/ \E mode \in RunModes : Rollback(mode)

SpecMigration == Init /\ [][NextMigration]_vars

\* One page and one conversation with every request of the page and every
\* answer to it, failures included. Each request is answered (the backend and
\* the database reply with a result or an error, the worker takes the oldest
\* task when it is free and finishes or fails it), and the continuation of a
\* handler runs once the promise it awaits has settled.
NextLive ==
  \/ \E k \in OneTab, c \in ConvIds : Quiet(k) /\ Select(k, c)
  \/ \E k \in OneTab : \E l \in loads[k] : LoadArrive(k, l)
  \/ \E k \in OneTab : \E l \in loads[k] : LoadFail(k, l)
  \/ \E k \in OneTab : Quiet(k) /\ conversations = << >> /\ CreatePostClick(k)
  \/ \E k \in OneTab : CoordinatorStart(k)
  \/ \E k \in OneTab : CoordinatorStartFail(k)
  \/ \E k \in OneTab : CreatePostSettle(k)
  \/ \E k \in OneTab : Quiet(k) /\ SetSelectedFormat(k, "framework")
  \/ \E k \in OneTab : Quiet(k) /\ handleFormatWithTemplate(k)
  \/ \E k \in OneTab, text \in SampleText : Quiet(k) /\ handleSubmitFeedback(k, text)
  \/ \E k \in OneTab : TransformEndpoint(k)
  \/ \E k \in OneTab : TransformSettleError(k)
  \/ \E k \in OneTab : TransformRefresh(k)
  \/ WorkerTake
  \/ \E t \in running : WorkerComplete(t)
  \/ \E t \in running : WorkerFail(t)
  \/ \E k \in OneTab, text \in SampleText : Quiet(k) /\ handleSavePost(k, text)
  \/ \E k \in OneTab : SaveUpdate(k)
  \/ \E k \in OneTab : SaveUpdateError(k)
  \/ \E k \in OneTab : SaveInsert(k)
  \/ \E k \in OneTab : SaveInsertError(k)
  \/ \E k \in OneTab : SaveSettle(k)
  \/ \E k \in OneTab, c \in ConvIds : Quiet(k) /\ RenameClick(k, c)
  \/ \E k \in OneTab : RenameUpdate(k)
  \/ \E k \in OneTab : RenameError(k)

Answered ==
  /\ \A k \in OneTab :
       /\ WF_vars(CoordinatorStart(k) \/ CoordinatorStartFail(k))
       /\ WF_vars(CreatePostSettle(k))
       /\ WF_vars(TransformEndpoint(k))
       /\ WF_vars(TransformSettleError(k))
       /\ WF_vars(TransformRefresh(k))
       /\ WF_vars(\E l \in loads[k] : LoadArrive(k, l) \/ LoadFail(k, l))
       /\ WF_vars(SaveUpdate(k) \/ SaveUpdateError(k))
       /\ WF_vars(SaveInsert(k) \/ SaveInsertError(k))
       /\ WF_vars(SaveSettle(k))
       /\ WF_vars(RenameUpdate(k) \/ RenameError(k))
  /\ WF_vars(WorkerTake)
  /\ WF_vars(\E t \in running : WorkerComplete(t) \/ WorkerFail(t))

SpecLive == Init /\ [][NextLive]_vars /\ Answered

\* One page and two conversations, each drafted; a format is chosen only while
\* the first conversation is open, feedback is sent for whichever is open.
NextCarry ==
  \/ \E k \in OneTab : Quiet(k) /\ CreatePostClick(k)
  \/ \E k \in OneTab : CoordinatorStart(k)
  \/ \E k \in OneTab : CreatePostSettle(k)
  \/ WorkerTake
  \/ \E t \in running : WorkerComplete(t)
  \/ \E k \in OneTab, c \in ConvIds : Quiet(k) /\ Select(k, c)
  \/ \E k \in OneTab : \E l \in loads[k] : LoadArrive(k, l)
  \/ \E k \in OneTab : /\ Quiet(k)
                        /\ selectedConversation[k] # None
                        /\ selectedConversation[k][1].id = ConvOrder[1]
                        /\ SetSelectedFormat(k, "framework")
  \/ \E k \in OneTab, text \in SampleText : Quiet(k) /\ handleSubmitFeedback(k, text)
  \/ \E k \in OneTab : TransformEndpoint(k)
  \/ \E k \in OneTab : TransformRefresh(k)

SpecCarry == Init /\ [][NextCarry]_vars

\* The editor's content as a function of the rows a page holds. The database
\* starts with one conversation whose messages are any list of up to MaxShown
\* rows of the three agents, the Final Editor rows written by either version
\* of the page (the older one stores a status line as content), and whose
\* state has or lacks final_content; the page has it open with an edited
\* editor.
MaxShown == 3
ShownAgents == {"Writer", "Format Agent", "Final Editor"}
ShownContents == {<< >>, <<"a">>, <<"d">>, LegacyStatusLine}
StateContents == {None, Some(<<"f">>)}
EditedContent == <<" ">>

ShownRow(i, agent, content) ==
  [id |-> i, conversation_id |-> "c1",
   role |-> IF agent = "Final Editor" THEN "user" ELSE "assistant",
   agent_name |-> agent, content |-> content,
   metadata |-> NoMetadata, created_at |-> i]

ShownLists ==
  UNION {{[i \in 1..n |-> ShownRow(i, a[i], t[i])] :
            a \in [1..n -> ShownAgents], t \in [1..n -> ShownContents]} :
         n \in 0..MaxShown}

InitPriority ==
  /\ \E fc \in StateContents :
       conversations = [c \in {"c1"} |->
          [title |-> "t1", status |-> "active",
           state |-> [EmptyState EXCEPT !.category = Some("manual_post"),
                                        !.final_content = fc],
           updated_at |-> 0]]
  /\ messages \in ShownLists
  /\ now = MaxShown + 1
  /\ clockTies = FALSE
  /\ queue = << >>
  /\ running = {}
  /\ uiConversations = [k \in Clients |-> IF k \in OneTab THEN FetchedList ELSE << >>]
  /\ selectedConversation = [k \in Clients |-> IF k \in OneTab THEN Some(Row("c1")) ELSE None]
  /\ uiMessages = [k \in Clients |-> IF k \in OneTab THEN messages ELSE << >>]
  /\ isLoadingMessages = [k \in Clients |-> FALSE]
  /\ loads = [k \in Clients |-> {}]
  /\ selectedFormat = [k \in Clients |-> ""]
  /\ feedbackText = [k \in Clients |-> << >>]
  /\ finalContent = [k \in Clients |-> IF k \in OneTab THEN EditedContent ELSE << >>]
  /\ postStatus = [k \in Clients |-> IF k \in OneTab THEN "active" ELSE ""]
  /\ createReq = [k \in Clients |-> Idle]
  /\ xfReq = [k \in Clients |-> Idle]
  /\ saveReq = [k \in Clients |-> Idle]
  /\ renameReq = [k \in Clients |-> Idle]
  /\ seen = {}
  /\ jobs = << >>
  /\ system_prompts = {}
  /\ content_templates = OriginalSchema

NextPriority ==
  \/ \E k \in OneTab : Quiet(k) /\ Reset(k)
  \/ \E k \in OneTab, c \in ConvIds : Quiet(k) /\ finalContent[k] = EditedContent /\ Select(k, c)
  \/ \E k \in OneTab : \E l \in loads[k] : LoadArrive(k, l)

SpecPriority == InitPriority /\ [][NextPriority]_vars

\* One page and one conversation; the content is edited, saved and reset.
NextReset ==
  \/ \E k \in OneTab, c \in ConvIds : Quiet(k) /\ Select(k, c)
  \/ \E k \in OneTab : \E l \in loads[k] : LoadArrive(k, l)
  \/ \E k \in OneTab : Quiet(k) /\ conversations = << >> /\ CreatePostClick(k)
  \/ \E k \in OneTab : CoordinatorStart(k)
  \/ \E k \in OneTab : CreatePostSettle(k)
  \/ WorkerTake
  \/ \E t \in running : WorkerComplete(t)
  \/ \E k \in OneTab, text \in SampleText : Quiet(k) /\ handleSavePost(k, text)
  \/ \E k \in OneTab : SaveUpdate(k)
  \/ \E k \in OneTab : SaveInsert(k)
  \/ \E k \in OneTab : SaveSettle(k)
  \/ \E k \in OneTab : Quiet(k) /\ Reset(k)

SpecReset == Init /\ [][NextReset]_vars

\* One page and two conversations, each drafted; the user clicks list entries
\* without waiting for the messages of the one clicked before.
NextStale ==
  \/ \E k \in OneTab : Quiet(k) /\ CreatePostClick(k)
  \/ \E k \in OneTab : CoordinatorStart(k)
  \/ \E k \in OneTab : CreatePostSettle(k)
  \/ WorkerTake
  \/ \E t \in running : WorkerComplete(t)
  \/ \E k \in OneTab, c \in ConvIds : Quiet(k) /\ Select(k, c)
  \/ \E k \in OneTab, c \in ConvIds : SelectDuringLoad(k, c)
  \/ \E k \in OneTab : \E l \in loads[k] : LoadArrive(k, l)

SpecStale == Init /\ [][NextStale]_vars

\* ------------------------------------------------------------ properties
StepsRunning(c) == {t \in running : t.conv = c}
QueuedFor(c) == {i \in 1..Len(queue) : queue[i].conv = c}

\* C1: for every conversation at most one pipeline step is in flight at any
\* instant; a second request that arrives while a step runs waits in the queue
\* and is not run beside it.
C1_AtMostOneStepInFlight ==
  \A c \in ConvIds : Cardinality(StepsRunning(c)) <= 1

\* a step of a conversation is running while a second request for the same
\* conversation waits behind it
C1_Witness ==
  \E c \in ConvIds : StepsRunning(c) # {} /\ QueuedFor(c) # {}

\* the message a step appends, when the step appends one
Appended == IF Len(messages') > Len(messages) THEN {messages'[Len(messages')]} ELSE {}

\* C5: a transform or feedback request for a conversation that has no Writer
\* message is answered PreconditionFailed and leaves the messages as they were;
\* no Format Agent message is ever appended to such a conversation.
C5_NoWriterPreconditionFailed ==
  [][/\ \A k \in Clients :
          (/\ xfReq[k].pc = "sent"
           /\ xfReq'[k].pc # "sent"
           /\ ~HasWriter(xfReq[k].body.conversation_id))
          => (xfReq'[k].pc = "PreconditionFailed" /\ messages' = messages)
     /\ \A m \in Appended :
          m.agent_name = "Format Agent" => HasWriter(m.conversation_id)]_vars

\* a request went out for a conversation without a Writer message (the shown
\* messages were still those of another conversation) and was refused
C5_Witness ==
  \E k \in Clients :
    /\ xfReq[k].pc = "PreconditionFailed"
    /\ ~HasWriter(xfReq[k].body.conversation_id)

\* the feedback history a read of conversation c can show holds text f
FeedbackRetrievable(c, f) ==
  \E r \in Reads(c) :
    \E i \in 1..Len(getFeedbackMessages(r)) : getFeedbackMessages(r)[i].content = f

\* C8: once a feedback request has been dispatched its text is recorded for the
\* conversation, so it can be read back after the agent call has failed.
C8_FeedbackRecordedBeforeDispatch ==
  \A k \in Clients :
    (xfReq[k].pc = "AgentFailed" /\ xfReq[k].kind = "feedback")
    => FeedbackRetrievable(xfReq[k].body.conversation_id, xfReq[k].body.feedback[1])


\* a save of page k whose conversation update has just succeeded / failed
SaveUpdated(k) == saveReq[k].pc = "update" /\ saveReq'[k].pc = "insert"
SaveRefused(k) == saveReq[k].pc = "update" /\ saveReq'[k].pc = "idle"
StateKeys == DOMAIN EmptyState

\* C2: a successful save keeps every key of the conversation's state that was
\* changed in the store after the saving page read the conversation.
C2_SaveKeepsOtherWriters ==
  [][\A k \in Clients : SaveUpdated(k) =>
       LET c == saveReq[k].conv.id IN
         \A key \in StateKeys :
           conversations[c].state[key] # saveReq[k].conv.state[key]
             => conversations'[c].state[key] = conversations[c].state[key]]_vars

\* C3 as stated: when a save attempt is over, either the conversation update
\* and the Final Editor insert both happened or neither did.
C3_SaveAllOrNothing ==
  \A k \in Clients : saveReq[k].pc = "settle"
    => (saveReq[k].updated <=> saveReq[k].inserted)

\* C3: a save is two writes in order. A refused conversation update writes
\* nothing at all; a Final Editor message is appended only by a save whose
\* update succeeded, with that save's trimmed content; a save reaches its end
\* with the update made whether or not the insert succeeded.
C3_UpdateThenInsert ==
  [][/\ \A k \in Clients : SaveRefused(k)
          => (conversations' = conversations /\ messages' = messages)
     /\ \A m \in Appended : m.agent_name = "Final Editor" =>
          \E k \in Clients : /\ saveReq[k].pc = "insert"
                             /\ saveReq[k].updated
                             /\ saveReq[k].conv.id = m.conversation_id
                             /\ m.content = Trim(saveReq[k].finalContent)
     /\ \A k \in Clients : saveReq'[k].pc = "settle" => saveReq'[k].updated]_vars
C3_Witness ==
  \E k \in Clients : /\ saveReq[k].pc = "settle"
                     /\ saveReq[k].updated /\ ~saveReq[k].inserted
                     /\ conversations[saveReq[k].conv.id].state.final_content
                          = Some(Trim(saveReq[k].finalContent))

\* C7: every message once written stays as it is and where it is; the message
\* list changes only by appends.
C7_MessagesAppendOnly ==
  [][/\ Len(messages') >= Len(messages)
     /\ \A i \in 1..Len(messages) : messages'[i] = messages[i]]_vars
C7_Witness ==
  /\ \E c \in DOMAIN conversations : conversations[c].title = NewTitle
  /\ \A a \in {"Writer", "Format Agent", "Final Editor"} :
       \E i \in 1..Len(messages) : messages[i].agent_name = a

\* C10 as stated: an archived conversation stays archived.
C10_ArchivedIsTerminal ==
  [][\A c \in DOMAIN conversations :
       conversations[c].status = "archived" => conversations'[c].status = "archived"]_vars

\* C10: status changes only in the update of a save, and a successful save
\* sets it to the status selected on the saving page, active or archived.
C10_StatusFollowsSave ==
  [][/\ \A c \in DOMAIN conversations :
          conversations'[c].status # conversations[c].status
            => \E k \in Clients : SaveUpdated(k) /\ saveReq[k].conv.id = c
     /\ \A k \in Clients : SaveUpdated(k)
          => conversations'[saveReq[k].conv.id].status = saveReq[k].postStatus]_vars
C10_Witness ==
  \E c \in DOMAIN conversations :
    /\ conversations[c].status = "active"
    /\ \E i \in 1..Len(messages) : /\ messages[i].conversation_id = c
                                   /\ messages[i].agent_name = "Final Editor"
                                   /\ messages[i].metadata.status = Some("archived")

\* t is s without the white space at its two ends
IsTrimOf(t, s) ==
  \E i, j \in 0..Len(s) :
    /\ i + Len(t) + j = Len(s)
    /\ t = SubSeq(s, i + 1, i + Len(t))
    /\ \A n \in (1..i) \cup ((Len(s) - j + 1)..Len(s)) : s[n] = " "
    /\ t # << >> => (t[1] # " " /\ t[Len(t)] # " ")

\* C4 as stated: a successful save with status active leaves final_content
\* equal to the content exactly as passed, and status active.
C4_SavedContentAsPassed ==
  [][\A k \in Clients : (SaveUpdated(k) /\ saveReq[k].postStatus = "active") =>
       LET row == conversations'[saveReq[k].conv.id] IN
         /\ row.state.final_content = Some(saveReq[k].finalContent)
         /\ row.status = "active"]_vars

\* C4: a successful save with status active leaves final_content equal to the
\* content without the white space at its ends, and status active; content
\* that is blank starts no save.
C4_SavedContentTrimmed ==
  [][/\ \A k \in Clients : (SaveUpdated(k) /\ saveReq[k].postStatus = "active") =>
          LET row == conversations'[saveReq[k].conv.id] IN
            /\ row.state.final_content # None
            /\ IsTrimOf(row.state.final_content[1], saveReq[k].finalContent)
            /\ row.status = "active"
     /\ \A k \in Clients : (saveReq[k].pc = "idle" /\ saveReq'[k].pc = "update")
          => \E n \in 1..Len(saveReq'[k].finalContent) :
               saveReq'[k].finalContent[n] # " "]_vars
C4_Witness ==
  \E k \in Clients :
    /\ saveReq[k].pc = "insert" /\ saveReq[k].postStatus = "active"
    /\ conversations[saveReq[k].conv.id].status = "active"
    /\ conversations[saveReq[k].conv.id].state.final_content # Some(saveReq[k].finalContent)
    /\ IsTrimOf(conversations[saveReq[k].conv.id].state.final_content[1],
                saveReq[k].finalContent)

\* the messages two pages show when each has loaded every message the
\* conversation has now
ShowsAll(k, c) ==
  /\ uiMessages[k] # << >>
  /\ Len(uiMessages[k]) = Cardinality(MessagesOf(c))
  /\ \A i \in 1..Len(uiMessages[k]) : uiMessages[k][i].conversation_id = c

\* C6: every list of messages a page has loaded is in non-decreasing
\* created_at order, and two loads of the same messages show the same sequence.
C6_ReadsOrderedAndStable ==
  /\ \A k \in Clients : \A i, j \in 1..Len(uiMessages[k]) :
       i < j => uiMessages[k][i].created_at <= uiMessages[k][j].created_at
  /\ \A c \in ConvIds : \A k1, k2 \in Clients :
       (ShowsAll(k1, c) /\ ShowsAll(k2, c)) => uiMessages[k1] = uiMessages[k2]

\* the messages of c in the order of their insertion
StoreOrder(c) == SelectSeq(messages, LAMBDA m : m.conversation_id = c)
FeedbackHistory(c) == getFeedbackMessages(StoreOrder(c))
FormatDone(t) == t.kind = "format" /\ t \notin running' /\ messages' # messages

\* C9: the message of a finished format step carries the request's feedback in
\* metadata.feedback and the agent's output alone as content; the feedback
\* history grows by exactly one entry, with that text, at its end, when the
\* step carried feedback, and is unchanged by every other step; its entries
\* are in creation order.
C9_FeedbackKeptApart ==
  [][/\ \A t \in running : FormatDone(t) =>
          LET m == messages'[Len(messages')]
              H == FeedbackHistory(t.conv)
              G == FeedbackHistory(t.conv)'
          IN /\ m.agent_name = "Format Agent"
             /\ m.metadata.feedback = t.feedback
             /\ m.content = IF t.feedback = None THEN FormatOutput ELSE RevisedOutput
             /\ IF t.feedback # None
                THEN /\ Len(G) = Len(H) + 1
                     /\ G[Len(G)].content = t.feedback[1]
                     /\ SubSeq(G, 1, Len(H)) = H
                ELSE G = H
     /\ (\A t \in running : ~FormatDone(t))
          => \A c \in ConvIds : FeedbackHistory(c)' = FeedbackHistory(c)
     /\ \A c \in ConvIds :
          LET G == FeedbackHistory(c)'
          IN \A i, j \in 1..Len(G) : i < j => G[i].timestamp <= G[j].timestamp]_vars
C9_Witness ==
  \E c \in ConvIds :
    /\ Len(FeedbackHistory(c)) = 1
    /\ \E i \in MessagesOf(c) : /\ messages[i].agent_name = "Format Agent"
                                /\ messages[i].metadata.feedback = None
    /\ \E i \in MessagesOf(c) : /\ messages[i].agent_name = "Format Agent"
                                /\ messages[i].metadata.feedback # None
                                /\ messages[i].content = RevisedOutput

\* C11: no step but a save changes a conversation's status, and a save with
\* status completed is accepted: it leaves the conversation completed, with
\* user_satisfied true and waiting_for_user false.
C11_CompletedSaveAccepted ==
  [][/\ \A c \in DOMAIN conversations :
          conversations'[c].status # conversations[c].status
            => \E k \in Clients : SaveUpdated(k) /\ saveReq[k].conv.id = c
     /\ \A k \in Clients :
          (/\ saveReq[k].pc = "update" /\ saveReq'[k].pc # "update"
           /\ saveReq[k].postStatus = "completed")
            => LET row == conversations'[saveReq[k].conv.id] IN
                 /\ SaveUpdated(k)
                 /\ row.status = "completed"
                 /\ row.state.user_satisfied = Some(TRUE)
                 /\ row.state.waiting_for_user = Some(FALSE)]_vars

\* the task a step of the worker starts, if the step starts one
Started == running' \ running

\* C12: when a task starts, no task of its conversation that was submitted
\* before it is still waiting or running: every task of that conversation left
\* in the queue was behind it, and none is running. A task of another
\* conversation may still be waiting.
C12_SameConversationInOrder ==
  [][\A t \in Started :
       /\ StepsRunning(t.conv) = {}
       /\ \E i \in 1..Len(queue) :
            /\ queue[i] = t
            /\ \A j \in QueuedFor(t.conv) : i <= j]_vars
C12_Witness ==
  \E t \in running :
    /\ t.kind = "format"
    /\ \E i \in QueuedFor(t.conv) : queue[i].kind = "format" /\ queue[i].client # t.client
    /\ \E i \in 1..Len(queue) : queue[i].conv # t.conv

\* the conversations start created for update u
ConvsOf(u) == {c \in DOMAIN conversations : conversations[c].title = u}

Range(q) == {q[i] : i \in 1..Len(q)}

\* C14: a step whose task was delivered again after a worker crash (after the
\* agent returned, before or after the result was persisted) leaves exactly
\* one message with its key (conversation id, step sequence number) once it
\* is persisted, and never more than one at any time.
C14_OneMessagePerStep ==
  \A i \in 1..Len(jobs) :
    LET n == Cardinality(StepMessages(jobs[i].task.conv, jobs[i].seq)) IN
      /\ n <= 1
      /\ jobs[i].phase \in {"persisted", "done"} => n = 1

C14_Witness ==
  \E i \in 1..Len(jobs) :
    /\ jobs[i].phase = "done"
    /\ "returned" \in Range(jobs[i].crashes)
    /\ jobs[i].attempts = 2
    /\ Cardinality(StepMessages(jobs[i].task.conv, jobs[i].seq)) = 1

\* the agent call of step i has just failed
CallFailed(i) == jobs[i].phase = "invoking" /\ jobs'[i].phase \in {"queued", "failed"}
Surfaced(i) == jobs[i].phase = "failed"

\* C15: no step is attempted more than 3 times; a call that fails with
\* AgentUnavailable surfaces the step as failed exactly when it was the third
\* attempt and is retried otherwise; a call that fails with AgentRejected
\* surfaces the step as failed at once; a surfaced step is never attempted
\* again, and a page is told of a failure only for a surfaced step.
C15_BoundedRetries ==
  [][\A i \in 1..Len(jobs) :
       /\ jobs[i].attempts <= 3
       /\ CallFailed(i) /\ jobs'[i].lastError = "AgentUnavailable"
            => /\ jobs'[i].attempts = jobs[i].attempts
               /\ (jobs'[i].phase = "failed") <=> (jobs[i].attempts = 3)
       /\ CallFailed(i) /\ jobs'[i].lastError = "AgentRejected"
            => jobs'[i].phase = "failed" /\ jobs'[i].attempts = jobs[i].attempts
       /\ Surfaced(i) => jobs'[i] = jobs[i]
       /\ (/\ jobs[i].task.kind = "format" /\ jobs'[i] # jobs[i]
           /\ xfReq[jobs[i].task.client].pc # "AgentFailed"
           /\ xfReq'[jobs[i].task.client].pc = "AgentFailed")
            => jobs'[i].phase = "failed"]_vars

C15_Witness ==
  \E i, j \in 1..Len(jobs) :
    /\ jobs[i].phase = "failed" /\ jobs[i].lastError = "AgentUnavailable"
    /\ jobs[i].attempts = 3
    /\ jobs[j].phase = "failed" /\ jobs[j].lastError = "AgentRejected"
    /\ jobs[j].attempts = 1

\* the Final Editor insert of page k's save has just failed
InsertFailed(k) ==
  saveReq[k].pc = "insert" /\ saveReq'[k].pc # "insert" /\ messages' = messages

\* C16: a later step's failure takes back nothing. A save whose Final Editor
\* insert fails leaves the conversation row as the update wrote it and goes
\* on to its success report, which changes nothing in the store either; a
\* pipeline step that fails leaves every message and every conversation as
\* they were.
C16_NoRollback ==
  [][/\ \A k \in Clients : InsertFailed(k) =>
          /\ conversations' = conversations
          /\ saveReq'[k].pc = "settle" /\ saveReq'[k].updated
          /\ ~saveReq'[k].inserted
     /\ \A k \in Clients : (saveReq[k].pc = "settle" /\ saveReq'[k].pc = "idle") =>
          conversations' = conversations /\ messages' = messages
     /\ (running' # running /\ running' \subseteq running /\ Appended = {}) =>
          conversations' = conversations /\ messages' = messages]_vars

C16_Witness ==
  \E k \in Clients :
    /\ saveReq[k].pc = "settle" /\ ~saveReq[k].inserted
    /\ conversations[saveReq[k].conv.id].status = saveReq[k].postStatus
    /\ conversations[saveReq[k].conv.id].state.final_content
         = Some(Trim(saveReq[k].finalContent))
    /\ \A i \in MessagesOf(saveReq[k].conv.id) : messages[i].agent_name # "Final Editor"

\* the message of agent in conversation c with the highest created_at and,
\* among equal created_at, the highest place in the order of insertion
LatestInStore(c, agent) ==
  LET I == {i \in MessagesOf(c) : messages[i].agent_name = agent}
  IN IF I = {} THEN None
     ELSE Some(messages[CHOOSE i \in I : \A j \in I :
                  \/ messages[j].created_at < messages[i].created_at
                  \/ messages[j].created_at = messages[i].created_at /\ j <= i])

\* page k has just received the rows of a load
Loaded(k) == loads'[k] # loads[k] /\ loads'[k] \subseteq loads[k] /\ uiMessages'[k] # << >>

Orphans == {i \in 1..Len(messages) : ~ConvExists(messages[i].conversation_id)}

\* C18: every message belongs to an existing conversation, in every state;
\* the step that deletes a conversation leaves no message of it and leaves
\* the messages of the other conversations as they were.
C18_NoOrphanMessage ==
  [][/\ Orphans = {}
     /\ Orphans' = {}
     /\ \A c \in DOMAIN conversations : c \notin DOMAIN conversations' =>
          /\ \A i \in 1..Len(messages') : messages'[i].conversation_id # c
          /\ messages' = SelectSeq(messages, LAMBDA m : m.conversation_id \in DOMAIN conversations')]_vars

\* a deleted conversation that had messages, with a save of it still in flight
C18_Witness ==
  /\ seen # {} /\ conversations = << >> /\ messages = << >> /\ now > 0
  /\ \E k \in Clients : saveReq[k].pc = "insert"

CurrentOf(a) == {r \in system_prompts : r.agent_name = a /\ r.is_current}

\* C19: for every agent name at most one system-prompt version is marked
\* current, in every state.
C19_OneCurrentPrompt == \A a \in PromptAgents : Cardinality(CurrentOf(a)) <= 1

\* conversation c is there before and after the step
Kept(c) == c \in DOMAIN conversations /\ c \in DOMAIN conversations'
RowChanged(c) ==
  \/ conversations'[c].title # conversations[c].title
  \/ conversations'[c].status # conversations[c].status
  \/ conversations'[c].state # conversations[c].state
AppendedTo(c) == {m \in Appended : m.conversation_id = c}

\* C20 as stated: updated_at never decreases, and every step that changes a
\* conversation, its row or its messages, sets updated_at to the time of the
\* step.
C20_EveryMutationBumps ==
  [][\A c \in ConvIds : Kept(c) =>
       /\ conversations'[c].updated_at >= conversations[c].updated_at
       /\ (RowChanged(c) \/ AppendedTo(c) # {})
            => conversations'[c].updated_at = now]_vars

\* C20: updated_at never decreases and changes only to the time of the step;
\* every step that changes the row (a save's update, a rename, a state merge)
\* and every agent step that appends a message sets it to the time of the
\* step; the Final Editor insert of a save leaves it at the time of that
\* save's update or of a later update, never later than the message's
\* created_at.
C20_RowUpdatesBump ==
  [][\A c \in ConvIds : Kept(c) =>
       /\ conversations'[c].updated_at >= conversations[c].updated_at
       /\ conversations'[c].updated_at # conversations[c].updated_at
            => conversations'[c].updated_at = now
       /\ RowChanged(c) => conversations'[c].updated_at = now
       /\ \A m \in AppendedTo(c) :
            IF m.agent_name = "Final Editor"
            THEN /\ conversations'[c].updated_at = conversations[c].updated_at
                 /\ conversations'[c].updated_at <= m.created_at
            ELSE conversations'[c].updated_at = now]_vars

C20_Witness ==
  \E i \in 1..Len(messages) :
    /\ messages[i].agent_name = "Final Editor"
    /\ conversations[messages[i].conversation_id].updated_at < messages[i].created_at
    /\ conversations[messages[i].conversation_id].title = NewTitle

\* C21: a save with status archived is accepted whether or not a step of the
\* conversation is queued or running; every step that finishes appends its
\* message to its conversation, archived or not, and leaves the status as it
\* was.
C21_ArchiveWhileInFlight ==
  [][/\ \A k \in Clients :
          (/\ saveReq[k].pc = "update" /\ saveReq'[k].pc # "update"
           /\ saveReq[k].postStatus = "archived" /\ ConvExists(saveReq[k].conv.id))
            => /\ saveReq'[k].pc = "insert"
               /\ conversations'[saveReq[k].conv.id].status = "archived"
     /\ \A t \in running : t \notin running' =>
          /\ \E m \in Appended :
               /\ m.conversation_id = t.conv
               /\ m.agent_name = IF t.kind = "draft" THEN "Writer" ELSE "Format Agent"
          /\ conversations'[t.conv].status = conversations[t.conv].status]_vars

\* the format step has just finished after the archiving update was made,
\* the save still being on its way to its insert
C21_Witness ==
  \E k \in Clients :
    /\ xfReq[k].pc = "ok"
    /\ saveReq[k].pc = "insert" /\ saveReq[k].postStatus = "archived"
    /\ LET c == saveReq[k].conv.id IN
         /\ conversations[c].status = "archived"
         /\ saveReq[k].conv.state.format = None
         /\ conversations[c].state.format # None
         /\ conversations[c].state.final_content # None
         /\ messages[Len(messages)].agent_name = "Format Agent"
         /\ messages[Len(messages)].conversation_id = c

\* the Writer message with the highest created_at among the rows a page holds
LatestWriterShown(k) ==
  LET I == {i \in 1..Len(uiMessages[k]) : uiMessages[k][i].agent_name = "Writer"}
  IN uiMessages[k][CHOOSE i \in I : \A j \in I :
       uiMessages[k][j].created_at <= uiMessages[k][i].created_at]

\* C22: the draft of a format or feedback request just sent is the content of
\* the Writer message with the highest created_at among the messages the page
\* holds for the conversation.
C22_DraftIsLatestWriter ==
  [][\A k \in Clients : (xfReq[k].pc = "idle" /\ xfReq'[k].pc = "sent")
       => xfReq'[k].body.draft = LatestWriterShown(k).content]_vars

\* C23: on a page with no load in flight, every message shown belongs to the
\* selected conversation.
C23_ShownBelongToSelected ==
  \A k \in Clients :
    (loads[k] = {} /\ selectedConversation[k] # None) =>
      \A i \in 1..Len(uiMessages[k]) :
        uiMessages[k][i].conversation_id = selectedConversation[k][1].id

\* the page's last save of the selected conversation went through and nothing
\* was written to the conversation since: the row holds the saved content and
\* the conversation's newest message is the Final Editor message with it
JustSaved(k) ==
  /\ saveReq[k].pc = "idle"
  /\ selectedConversation[k] # None
  /\ LET c == selectedConversation[k][1].id
         ms == SelectSeq(messages, LAMBDA m : m.conversation_id = c)
     IN /\ ConvExists(c)
        /\ conversations[c].state.final_content # None
        /\ ms # << >>
        /\ ms[Len(ms)].agent_name = "Final Editor"
        /\ ms[Len(ms)].content = conversations[c].state.final_content[1]

\* C24: Reset pressed after a successful save puts the saved content into the
\* editor.
C24_ResetYieldsSaved ==
  [][\A k \in Clients : (JustSaved(k) /\ Reset(k)) =>
       finalContent'[k] = conversations[selectedConversation[k][1].id].state.final_content[1]]_vars

\* the editor of page k has just been filled, by Reset or by the arrival of
\* the rows of the conversation that was opened
EditorFilled(k) ==
  \/ Reset(k)
  \/ \E l \in loads[k] : LoadArrive(k, l) /\ Some(l.conv) = selectedConversation[k]

FeedbackSent(k) ==
  xfReq[k].pc = "idle" /\ xfReq'[k].pc = "sent" /\ xfReq'[k].kind = "feedback"

\* C26 as stated: a feedback request for a conversation for which no format
\* was selected carries 'general'. Where a format is chosen only while the
\* first conversation is open, every feedback request for the second one
\* would carry 'general'.
C26_FormatOfConversation ==
  [][\A k \in Clients :
       (FeedbackSent(k) /\ xfReq'[k].body.conversation_id = ConvOrder[2])
          => xfReq'[k].body.format = "general"]_vars

\* C26: a feedback request carries the format that the page's format select
\* holds when it is sent, whichever conversation was open when it was chosen,
\* and 'general' when the select holds none.
C26_FormatOfPage ==
  [][\A k \in Clients : FeedbackSent(k) =>
       /\ selectedFormat[k] # "" => xfReq'[k].body.format = selectedFormat[k]
       /\ selectedFormat[k] = "" => xfReq'[k].body.format = "general"]_vars

\* a feedback request for the second conversation is in flight with the
\* format chosen while the first one was open
C26_Witness ==
  \E k \in Clients :
    /\ xfReq[k].pc = "sent" /\ xfReq[k].kind = "feedback"
    /\ xfReq[k].body.conversation_id = ConvOrder[2]
    /\ xfReq[k].body.format = "framework"

\* the store answers the update of a save of page k
UpdateAnswered(k) == saveReq[k].pc = "update" /\ saveReq'[k].pc # "update"

\* C27: a save whose status is neither active nor archived is refused by the
\* store: the handler is back to idle without having inserted a message, and
\* conversations and messages are as before.
C27_RefusedSaveChangesNothing ==
  [][\A k \in Clients :
       (UpdateAnswered(k) /\ saveReq[k].postStatus \notin {"active", "archived"})
          => /\ saveReq'[k] = Idle
             /\ conversations' = conversations
             /\ messages' = messages]_vars

\* a save of 'a' with the status draft is over: the page is idle with 'a' in
\* its editor and draft as status, and the conversation has no final_content
\* and no Final Editor message
C27_Witness ==
  \E k \in Clients :
    /\ saveReq[k].pc = "idle"
    /\ selectedConversation[k] # None
    /\ postStatus[k] = "draft"
    /\ finalContent[k] = <<"a">>
    /\ LET c == selectedConversation[k][1].id
       IN /\ ConvExists(c)
          /\ conversations[c].status = "active"
          /\ conversations[c].state.final_content = None
          /\ \A i \in MessagesOf(c) : messages[i].agent_name # "Final Editor"

\* C28: a save attempted with no conversation selected, or with content that
\* is empty once trimmed, leaves the saving flag down and conversations and
\* messages as they are; so a raised saving flag always belongs to a request
\* with content that is not empty once trimmed.
C28_EmptySaveWritesNothing ==
  [][\A k \in Clients :
       /\ \A text \in Texts :
            (/\ handleSavePost(k, text)
             /\ (selectedConversation[k] = None \/ \A i \in 1..Len(text) : text[i] = " "))
              => /\ saveReq'[k].pc = "idle"
                 /\ conversations' = conversations
                 /\ messages' = messages
       /\ saveReq'[k].pc # "idle" =>
            \E i \in 1..Len(saveReq'[k].finalContent) : saveReq'[k].finalContent[i] # " "]_vars

\* a save of blanks was attempted on an open conversation: the editor holds
\* the blanks, the page is idle and nothing was saved
C28_Witness ==
  \E k \in Clients :
    /\ selectedConversation[k] # None
    /\ finalContent[k] # << >>
    /\ \A i \in 1..Len(finalContent[k]) : finalContent[k][i] = " "
    /\ saveReq[k].pc = "idle"
    /\ ConvExists(selectedConversation[k][1].id)
    /\ conversations[selectedConversation[k][1].id].state.final_content = None

\* C29: a raised in-flight flag of a page (creating, formatting or submitting
\* feedback, saving, renaming) is eventually down again.
C29_FlagsCleared ==
  \A k \in OneTab :
    /\ (createReq[k].pc # "idle") ~> (createReq[k].pc = "idle")
    /\ (xfReq[k].pc # "idle") ~> (xfReq[k].pc = "idle")
    /\ (saveReq[k].pc # "idle") ~> (saveReq[k].pc = "idle")
    /\ (renameReq[k].pc # "idle") ~> (renameReq[k].pc = "idle")

\* every handler has run to its end on one conversation: it was created,
\* formatted, saved and renamed, and all flags of the page are down
C29_Witness ==
  \E k \in OneTab : \E c \in DOMAIN conversations :
    /\ Quiet(k)
    /\ conversations[c].title = NewTitle
    /\ conversations[c].state.final_content # None
    /\ \E i \in MessagesOf(c) : messages[i].agent_name = "Format Agent"

\* C30: once the rollback has been run on the migrated table, the table has
\* the columns, CHECK constraints, indexes and policies it was created with,
\* whatever rows it holds.
C30_RollbackRestoresSchema ==
  content_templates.ran = "rollback" =>
    /\ content_templates.columns = OriginalSchema.columns
    /\ content_templates.checks = OriginalSchema.checks
    /\ content_templates.indexes = OriginalSchema.indexes
    /\ content_templates.policies = OriginalSchema.policies
====
